---- MODULE Spec2Model ----
(***************************************************************************)
(* Model of the boundary-processing script of school-finder-uk            *)
(* (scripts/process-boundaries.ts): the Douglas-Peucker ring simplifier,  *)
(* the perpendicular-distance metric and the coordinate quantizer.        *)
(*                                                                         *)
(* A JavaScript number is a binary floating-point value: every arithmetic *)
(* operation returns the representable value nearest to the exact result  *)
(* (ties to even).  The model keeps that behaviour with a mantissa of     *)
(* MantBits bits in place of 53; the exponent is unbounded, so there is   *)
(* no overflow, underflow, infinity or NaN.  A number is a pair <<m, e>>  *)
(* standing for m * 2^e, normalised so that m is odd (or <<0, 0>>).       *)
(***************************************************************************)
EXTENDS Integers, Sequences, FiniteSets, TLC

\* ------------------------------------------------------------------ bounds

\* Mantissa width of the modelled number type (53 in the program).
MantBits == 7

\* Longest ring drawn as an input of simplifyRing.
MaxLen == 5

\* Largest decimal precision drawn as an input of roundCoordinates.
MaxPrecision == 2

\* Most rings in a polygon drawn as an input.
MaxRings == 2

\* Most areas fetched in a run of the boundary script.
MaxAreas == 2

\* Most fields in a CSV line that is built from fields, and the longest of
\* those fields.
MaxFields == 2

MaxFieldLen == 2

\* Most lines in the stream of a run of the price script.
MaxLines == 2

\* The longest array of values given to calculateMedian.
MaxValues == 4

\* The most lines of a stream whose runs are compared as wholes.
MaxRecords == 3

\* ------------------------------------------------------- number arithmetic

Pow2(k) == IF k <= 0 THEN 1 ELSE 2 ^ k

Pow10(k) == IF k <= 0 THEN 1 ELSE 10 ^ k

Abs(n) == IF n < 0 THEN -n ELSE n

Sgn(n) == IF n < 0 THEN -1 ELSE 1

Min(a, b) == IF a <= b THEN a ELSE b

RECURSIVE BitLen(_)
BitLen(n) == IF n = 0 THEN 0 ELSE 1 + BitLen(n \div 2)

\* The canonical pair of the value m * 2^e.
RECURSIVE Norm(_, _)
Norm(m, e) ==
  IF m = 0 THEN <<0, 0>>
  ELSE IF m % 2 = 0 THEN Norm(m \div 2, e + 1)
  ELSE <<m, e>>

\* The number nearest to the exact value n * 2^e, ties to even.
RoundInt(n, e) ==
  LET a == Abs(n)
      k == BitLen(a) - MantBits
  IN IF k <= 0 THEN Norm(n, e)
     ELSE LET q    == a \div Pow2(k)
              r    == a % Pow2(k)
              half == Pow2(k - 1)
              up   == r > half \/ (r = half /\ q % 2 = 1)
          IN Norm(Sgn(n) * (IF up THEN q + 1 ELSE q), e + k)

\* The least s >= 0 with a * 2^s >= den * 2^(MantBits + 1).
RECURSIVE ShiftFor(_, _, _)
ShiftFor(a, den, s) ==
  IF a * Pow2(s) >= den * Pow2(MantBits + 1) THEN s ELSE ShiftFor(a, den, s + 1)

\* The number nearest to the exact value (num / den) * 2^e, den > 0.
RoundRat(num, den, e) ==
  IF num = 0 THEN <<0, 0>>
  ELSE LET a      == Abs(num)
           s      == ShiftFor(a, den, 0)
           q      == (a * Pow2(s)) \div den
           sticky == IF (a * Pow2(s)) % den = 0 THEN 0 ELSE 1
       IN RoundInt(Sgn(num) * (2 * q + sticky), e - s - 1)

F0 == <<0, 0>>

\* The number of an integer literal (exact while |n| < 2^MantBits).
FromInt(n) == RoundInt(n, 0)

FNeg(a) == <<-a[1], a[2]>>

\* a + b
FAdd(a, b) ==
  IF a[1] = 0 THEN b
  ELSE IF b[1] = 0 THEN a
  ELSE IF a[2] - b[2] > 2 * MantBits + 2 THEN a
  ELSE IF b[2] - a[2] > 2 * MantBits + 2 THEN b
  ELSE LET e == Min(a[2], b[2])
       IN RoundInt(a[1] * Pow2(a[2] - e) + b[1] * Pow2(b[2] - e), e)

\* a - b
FSub(a, b) == FAdd(a, FNeg(b))

\* a * b
FMul(a, b) == RoundInt(a[1] * b[1], a[2] + b[2])

\* a / b, b # 0
FDiv(a, b) == RoundRat(a[1] * Sgn(b[1]), Abs(b[1]), a[2] - b[2])

\* a < b and a <= b, exactly
FLess(a, b) ==
  LET e == Min(a[2], b[2])
  IN a[1] * Pow2(a[2] - e) < b[1] * Pow2(b[2] - e)

FLeq(a, b) == ~FLess(b, a)

\* The least s = s0 (mod 2) with m * 2^s >= 4^(MantBits + 1).
RECURSIVE SqrtShift(_, _)
SqrtShift(m, s) ==
  IF m * Pow2(s) >= Pow2(2 * MantBits + 2) THEN s ELSE SqrtShift(m, s + 2)

\* floor(sqrt(v)), bit by bit from the top.
RECURSIVE SqrtBits(_, _, _)
SqrtBits(v, r, bit) ==
  IF bit = 0 THEN r
  ELSE SqrtBits(v, IF (r + bit) * (r + bit) <= v THEN r + bit ELSE r, bit \div 2)

\* Math.sqrt(a), a >= 0: the number nearest to the exact square root.
MathSqrt(a) ==
  IF a[1] = 0 THEN F0
  ELSE LET s      == SqrtShift(a[1], a[2] % 2)
           v      == a[1] * Pow2(s)
           r      == SqrtBits(v, 0, Pow2(MantBits + 4))
           sticky == IF r * r = v THEN 0 ELSE 1
       IN RoundInt(2 * r + sticky, ((a[2] - s) \div 2) - 1)

\* Math.pow(x, 2)
MathPow2(x) == FMul(x, x)

\* Math.pow(10, precision)
MathPow10(precision) == RoundInt(Pow10(precision), 0)

\* Fault variant of MathRound: a tie goes away from zero.
MathRoundTiesAway(x) ==
  IF x[2] >= 0 THEN x
  ELSE RoundInt(Sgn(x[1]) * ((Abs(x[1]) + Pow2(-x[2] - 1)) \div Pow2(-x[2])), 0)

\* Math.round(x): the nearest integer, a tie going to the larger one
\* (floor(x + 1/2), computed exactly).
MathRound(x) ==
  IF x[2] >= 0 THEN x
  ELSE RoundInt((x[1] + Pow2(-x[2] - 1)) \div Pow2(-x[2]), 0)

\* ---------------------------------------------------- perpendicularDistance

\* A point is a pair of numbers <<x, y>> (coord[0], coord[1]).
Pt(x, y) == <<FromInt(x), FromInt(y)>>

\* sqrt(pow(a[0] - b[0], 2) + pow(a[1] - b[1], 2))
Hypot(a, b) ==
  MathSqrt(FAdd(MathPow2(FSub(a[1], b[1])), MathPow2(FSub(a[2], b[2]))))

\* The projection parameter t of point on the line lineStart -> lineEnd.
ProjectionT(point, lineStart, dx, dy) ==
  FDiv(FAdd(FMul(FSub(point[1], lineStart[1]), dx),
            FMul(FSub(point[2], lineStart[2]), dy)),
       FAdd(FMul(dx, dx), FMul(dy, dy)))

\* Fault variant of perpendicularDistance: the projection is clamped to the
\* segment (t kept within 0..1), which measures the distance to the segment.
perpendicularDistanceClamped(point, lineStart, lineEnd) ==
  LET dx == FSub(lineEnd[1], lineStart[1])
      dy == FSub(lineEnd[2], lineStart[2])
  IN IF dx = F0 /\ dy = F0
     THEN Hypot(point, lineStart)
     ELSE LET t0       == ProjectionT(point, lineStart, dx, dy)
              t        == IF FLess(t0, F0) THEN F0
                          ELSE IF FLess(FromInt(1), t0) THEN FromInt(1) ELSE t0
              nearestX == FAdd(lineStart[1], FMul(t, dx))
              nearestY == FAdd(lineStart[2], FMul(t, dy))
          IN Hypot(point, <<nearestX, nearestY>>)

perpendicularDistance(point, lineStart, lineEnd) ==
  LET dx == FSub(lineEnd[1], lineStart[1])
      dy == FSub(lineEnd[2], lineStart[2])
  IN IF dx = F0 /\ dy = F0
     THEN Hypot(point, lineStart)
     ELSE LET t        == ProjectionT(point, lineStart, dx, dy)
              nearestX == FAdd(lineStart[1], FMul(t, dx))
              nearestY == FAdd(lineStart[2], FMul(t, dy))
          IN Hypot(point, <<nearestX, nearestY>>)

\* ------------------------------------------------------------ simplifyRing

\* Indices are those of the program (from 0): points[i] is At(points, i).
At(points, i) == points[i + 1]

Range(seq) == {seq[k] : k \in 1..Len(seq)}

\* Set.prototype.add on a Set kept in insertion order.
SetAdd(set, x) == IF x \in Range(set) THEN set ELSE Append(set, x)

\* Fault variants of Exceeds: the comparison inverted (maxDist < tolerance),
\* and not strict (maxDist >= tolerance).
ExceedsInverted(maxDist, tolerance) == FLess(maxDist, tolerance)

ExceedsOrEquals(maxDist, tolerance) == FLeq(tolerance, maxDist)

\* maxDist > tolerance
Exceeds(maxDist, tolerance) == FLess(tolerance, maxDist)

\* The loop of rdp from index i on: the running maximum and its index.
\* rdpLoop tests the loop condition and measures points[i]; rdpLoopBody is
\* the body of the loop with that distance.
RECURSIVE rdpLoop(_, _, _, _, _, _)
RECURSIVE rdpLoopBody(_, _, _, _, _, _, _)
\* Fault variant of rdpLoop: the loop stops one index early (i < end - 1).
rdpLoopSkipsLast(points, start, end, i, maxDist, maxIndex) ==
  IF ~(i < end - 1) THEN [maxDist |-> maxDist, maxIndex |-> maxIndex]
  ELSE rdpLoopBody(points, start, end, i, maxDist, maxIndex,
                   perpendicularDistance(At(points, i), At(points, start),
                                         At(points, end)))

rdpLoop(points, start, end, i, maxDist, maxIndex) ==
  IF ~(i < end) THEN [maxDist |-> maxDist, maxIndex |-> maxIndex]
  ELSE rdpLoopBody(points, start, end, i, maxDist, maxIndex,
                   perpendicularDistance(At(points, i), At(points, start),
                                         At(points, end)))

rdpLoopBody(points, start, end, i, maxDist, maxIndex, dist) ==
  IF FLess(maxDist, dist)
  THEN rdpLoop(points, start, end, i + 1, dist, i)
  ELSE rdpLoop(points, start, end, i + 1, maxDist, maxIndex)

\* rdp(points, start, end, result).  st.keep is the Set result in insertion
\* order; st.calls lists, in call order, the ranges that passed the first
\* guard with the maximum found in each; st.overflow records a recursion
\* that never ends (the call repeats itself with the same range, which the
\* program ends with a RangeError for the exhausted call stack).
\* rdp is the guard and the loop; rdpSplit is the final test on the maximum
\* m the loop found.
RECURSIVE rdp(_, _, _, _, _)
RECURSIVE rdpSplit(_, _, _, _, _, _)
rdp(points, start, end, tolerance, st) ==
  IF st.overflow \/ end <= start + 1 THEN st
  ELSE rdpSplit(points, start, end, tolerance, st,
                rdpLoop(points, start, end, start + 1, F0, start))

rdpSplit(points, start, end, tolerance, st, m) ==
  LET st1 == [st EXCEPT !.calls =
                Append(@, [start |-> start, end |-> end,
                           maxIndex |-> m.maxIndex, maxDist |-> m.maxDist])]
      st2 == [st1 EXCEPT !.keep = SetAdd(@, m.maxIndex)]
  IN IF Exceeds(m.maxDist, tolerance)
     THEN IF m.maxIndex = start
          THEN [st2 EXCEPT !.overflow = TRUE]
          ELSE rdp(points, m.maxIndex, end, tolerance,
                   rdp(points, start, m.maxIndex, tolerance, st2))
     ELSE st1

\* Array.prototype.sort((a, b) => a - b) on distinct integers.
RECURSIVE SortAsc(_)
SortAsc(seq) ==
  IF Len(seq) = 0 THEN <<>>
  ELSE LET lo == CHOOSE x \in Range(seq) : \A y \in Range(seq) : x <= y
       IN <<lo>> \o SortAsc(SelectSeq(seq, LAMBDA z : z # lo))

\* Fault variant of InitialKeep: the last index is not put in the Set.
InitialKeepFirstOnly(ring) == <<0>>

\* new Set<number>([0, ring.length - 1])
InitialKeep(ring) == SetAdd(<<0>>, Len(ring) - 1)

\* Fault variant of TooShort: the bypass taken below 3 points only.
TooShortBelow3(ring) == Len(ring) < 3

\* ring.length < 4
TooShort(ring) == Len(ring) < 4

\* Fault variant of OutputOrder: the indices left in insertion order.
OutputOrderAsInserted(keep) == keep

\* The order in which the kept indices are mapped back to points.
OutputOrder(keep) == SortAsc(keep)

\* simplifyRing(ring, tolerance): what it returns (result), or that it threw,
\* with the Set and the ranges examined.
simplifyRing(ring, tolerance) ==
  IF TooShort(ring)
  THEN [result |-> ring, keep |-> <<>>, calls |-> <<>>, threw |-> FALSE]
  ELSE LET st      == rdp(ring, 0, Len(ring) - 1, tolerance,
                          [keep |-> InitialKeep(ring), calls |-> <<>>,
                           overflow |-> FALSE])
           indices == OutputOrder(st.keep)
       IN [result |-> IF st.overflow THEN <<>>
                      ELSE [k \in 1..Len(indices) |-> At(ring, indices[k])],
           keep   |-> st.keep,
           calls  |-> st.calls,
           threw  |-> st.overflow]

\* -------------------------------------------------------- roundCoordinates

\* Fault variant of roundCoord: the rounded value is multiplied by the
\* factor where it is to be divided by it.
roundCoordMultipliesBack(coord, precision) ==
  LET factor == MathPow10(precision)
  IN <<FMul(MathRound(FMul(coord[1], factor)), factor),
       FMul(MathRound(FMul(coord[2], factor)), factor)>>

\* roundCoord(coord) with factor = Math.pow(10, precision).
roundCoord(coord, precision) ==
  LET factor == MathPow10(precision)
  IN <<FDiv(MathRound(FMul(coord[1], factor)), factor),
       FDiv(MathRound(FMul(coord[2], factor)), factor)>>

\* roundRing(ring)
roundRing(ring, precision) ==
  [k \in 1..Len(ring) |-> roundCoord(ring[k], precision)]

\* ----------------------------------------- simplifyFeature, roundCoordinates

\* A feature is the record [type, properties, geometry], its geometry the
\* record [type, coordinates]; an object spread with one field replaced is
\* EXCEPT on that field.

\* coords.map((ring) => simplifyRing(ring, tolerance)): what each call did.
simplifyRings(coords, tolerance) ==
  [k \in 1..Len(coords) |-> simplifyRing(coords[k], tolerance)]

\* The rings those calls returned, and whether one of them threw.
ringsReturned(calls) == [k \in 1..Len(calls) |-> calls[k].result]

ringsThrew(calls) == \E k \in 1..Len(calls) : calls[k].threw

\* Fault variant of simplifyFeature: rings left with fewer than 4 points are
\* dropped from a Polygon.
simplifyFeatureDropsShortRings(feature, tolerance) ==
  LET geom == feature.geometry
  IN IF geom.type = "Polygon"
     THEN LET calls == simplifyRings(geom.coordinates, tolerance)
          IN [threw |-> ringsThrew(calls),
              value |-> [feature EXCEPT !.geometry.coordinates =
                           SelectSeq(ringsReturned(calls),
                                     LAMBDA r : Len(r) >= 4)]]
     ELSE IF geom.type = "MultiPolygon"
     THEN LET calls == [j \in 1..Len(geom.coordinates) |->
                          simplifyRings(geom.coordinates[j], tolerance)]
          IN [threw |-> \E j \in 1..Len(calls) : ringsThrew(calls[j]),
              value |-> [feature EXCEPT !.geometry.coordinates =
                           [j \in 1..Len(calls) |-> ringsReturned(calls[j])]]]
     ELSE [threw |-> FALSE, value |-> feature]

\* Fault variant of simplifyFeature: every geometry that is not a
\* MultiPolygon is handled as a Polygon.
simplifyFeatureAnyType(feature, tolerance) ==
  LET geom == feature.geometry
  IN IF geom.type = "MultiPolygon"
     THEN LET calls == [j \in 1..Len(geom.coordinates) |->
                          simplifyRings(geom.coordinates[j], tolerance)]
          IN [threw |-> \E j \in 1..Len(calls) : ringsThrew(calls[j]),
              value |-> [feature EXCEPT !.geometry.coordinates =
                           [j \in 1..Len(calls) |-> ringsReturned(calls[j])]]]
     ELSE LET calls == simplifyRings(geom.coordinates, tolerance)
          IN [threw |-> ringsThrew(calls),
              value |-> [feature EXCEPT !.geometry.coordinates =
                           ringsReturned(calls)]]

\* simplifyFeature(feature, tolerance): the feature it returns (value), or
\* that a simplifyRing call in it threw.
simplifyFeature(feature, tolerance) ==
  LET geom == feature.geometry
  IN IF geom.type = "Polygon"
     THEN LET calls == simplifyRings(geom.coordinates, tolerance)
          IN [threw |-> ringsThrew(calls),
              value |-> [feature EXCEPT !.geometry.coordinates =
                           ringsReturned(calls)]]
     ELSE IF geom.type = "MultiPolygon"
     THEN LET calls == [j \in 1..Len(geom.coordinates) |->
                          simplifyRings(geom.coordinates[j], tolerance)]
          IN [threw |-> \E j \in 1..Len(calls) : ringsThrew(calls[j]),
              value |-> [feature EXCEPT !.geometry.coordinates =
                           [j \in 1..Len(calls) |-> ringsReturned(calls[j])]]]
     ELSE [threw |-> FALSE, value |-> feature]

\* coords.map(roundRing)
roundRings(coords, precision) ==
  [k \in 1..Len(coords) |-> roundRing(coords[k], precision)]

\* roundCoordinates(feature, precision)
roundCoordinates(feature, precision) ==
  LET geom == feature.geometry
  IN IF geom.type = "Polygon"
     THEN [feature EXCEPT !.geometry.coordinates =
             roundRings(geom.coordinates, precision)]
     ELSE IF geom.type = "MultiPolygon"
     THEN [feature EXCEPT !.geometry.coordinates =
             [j \in 1..Len(geom.coordinates) |->
                roundRings(geom.coordinates[j], precision)]]
     ELSE feature

\* -------------------------------------------------- main (boundary script)

\* The tolerance and the precision main passes: 0.0005 and 4.
SimplifyTolerance == RoundRat(5, 10000, 0)

RoundPrecision == 4

\* props.name and props.district are read with ||: a missing or empty
\* value gives way to the next.
Truthy(props, key) == key \in DOMAIN props /\ props[key] # ""

\* extractDistrictName(feature)
extractDistrictName(feature) ==
  LET props == feature.properties
  IN IF Truthy(props, "name") THEN props.name
     ELSE IF Truthy(props, "district") THEN props.district
     ELSE "Unknown"

\* The features one fetched area adds to allFeatures:
\* {...feature, properties: { district }} for each of its features.
collectArea(features) ==
  [k \in 1..Len(features) |->
     [features[k] EXCEPT !.properties =
        [district |-> extractDistrictName(features[k])]]]

\* Fault variant of simplifyStage: the features are quantized before they
\* are simplified.
simplifyStageAfterRounding(features) ==
  [k \in 1..Len(features) |->
     simplifyFeature(roundCoordinates(features[k], RoundPrecision),
                     SimplifyTolerance).value]

\* allFeatures.map((f) => simplifyFeature(f, 0.0005))
simplifyStage(features) ==
  [k \in 1..Len(features) |->
     simplifyFeature(features[k], SimplifyTolerance).value]

\* simplified.map((f) => roundCoordinates(f, 4))
roundStage(features) ==
  [k \in 1..Len(features) |-> roundCoordinates(features[k], RoundPrecision)]

\* ------------------------------------------ strings (price script)

\* A string is the sequence of its characters, each a string of length 1.

\* NaN, the number that is not a number: no comparison with it holds.
NaN == <<0, 1>>

isNaN(x) == x = NaN

\* a < b and a <= b on numbers, either of which may be NaN.
JsLess(a, b) == ~isNaN(a) /\ ~isNaN(b) /\ FLess(a, b)

JsLeq(a, b) == ~isNaN(a) /\ ~isNaN(b) /\ FLeq(a, b)

Digits == <<"0", "1", "2", "3", "4", "5", "6", "7", "8", "9">>

IsDigit(c) == \E d \in 1..10 : Digits[d] = c

DigitValue(c) == (CHOOSE d \in 1..10 : Digits[d] = c) - 1

LowerCase == <<"a", "b", "c", "s", "w">>

UpperCase == <<"A", "B", "C", "S", "W">>

\* String.prototype.toUpperCase, on the letters the inputs use.
toUpperCase(str) ==
  [k \in 1..Len(str) |->
     IF \E l \in 1..Len(LowerCase) : LowerCase[l] = str[k]
     THEN UpperCase[CHOOSE l \in 1..Len(LowerCase) : LowerCase[l] = str[k]]
     ELSE str[k]]

\* White space as trim and parseInt know it: the space and the tab (of the
\* characters the inputs use).
IsWhiteSpace(c) == c \in {" ", "\t"}

RECURSIVE trimStart(_)
trimStart(str) ==
  IF str # <<>> /\ IsWhiteSpace(Head(str)) THEN trimStart(Tail(str)) ELSE str

RECURSIVE trimEnd(_)
trimEnd(str) ==
  IF str # <<>> /\ IsWhiteSpace(str[Len(str)])
  THEN trimEnd(SubSeq(str, 1, Len(str) - 1))
  ELSE str

\* String.prototype.trim
trim(str) == trimEnd(trimStart(str))

\* String.prototype.indexOf(c): the first index (from 0) of c, or -1.
indexOf(str, c) ==
  IF \E k \in 1..Len(str) : str[k] = c
  THEN (CHOOSE k \in 1..Len(str) : str[k] = c /\ \A j \in 1..(k - 1) : str[j] # c) - 1
  ELSE -1

\* String.prototype.substring(0, end)
substring0(str, end) == SubSeq(str, 1, end)

\* The value of the longest prefix of digits of str, after the digits acc.
RECURSIVE digitsValue(_, _)
digitsValue(str, acc) ==
  IF str # <<>> /\ IsDigit(Head(str))
  THEN digitsValue(Tail(str), 10 * acc + DigitValue(Head(str)))
  ELSE acc

\* parseInt(str, 10): leading white space is dropped, a sign is read, then
\* the longest prefix of digits; NaN when there is no digit there.
parseInt(str) ==
  LET s0   == trimStart(str)
      neg  == s0 # <<>> /\ Head(s0) = "-"
      s1   == IF s0 # <<>> /\ Head(s0) \in {"-", "+"} THEN Tail(s0) ELSE s0
  IN IF s1 = <<>> \/ ~IsDigit(Head(s1)) THEN NaN
     ELSE FromInt((IF neg THEN -1 ELSE 1) * digitsValue(s1, 0))

\* ------------------------------------------------- dates (price script)

\* The time value of a local date and time.  The program's numbers hold a
\* time value exactly; it is kept here as a count of minutes in which every
\* month has 31 days, which orders dates as the time values do.
TimeValue(y, m, d, hh, mm) ==
  Norm((((y - 1970) * 12 + (m - 1)) * 31 + (d - 1)) * 1440 + hh * 60 + mm, 0)

TwoDigits(str, k) == 10 * DigitValue(str[k]) + DigitValue(str[k + 1])

\* str has the form of the dates of the data file, "YYYY-MM-DD HH:MM".
IsDateTime(str) ==
  /\ Len(str) = 16
  /\ \A k \in {1, 2, 3, 4, 6, 7, 9, 10, 12, 13, 15, 16} : IsDigit(str[k])
  /\ str[5] = "-" /\ str[8] = "-" /\ str[11] = " " /\ str[14] = ":"
  /\ TwoDigits(str, 6) \in 1..12
  /\ TwoDigits(str, 9) \in 1..31
  /\ TwoDigits(str, 12) \in 0..23
  /\ TwoDigits(str, 15) \in 0..59

\* new Date(dateStr), as its time value: that of a date of the form above,
\* NaN (an Invalid Date) for a string that no date parser reads as a date.
DateParse(dateStr) ==
  IF IsDateTime(dateStr)
  THEN TimeValue(100 * TwoDigits(dateStr, 1) + TwoDigits(dateStr, 3),
                 TwoDigits(dateStr, 6), TwoDigits(dateStr, 9),
                 TwoDigits(dateStr, 12), TwoDigits(dateStr, 15))
  ELSE NaN

\* new Date() at the moment now, then setFullYear(getFullYear() - 2): the
\* 29th of February becomes the 1st of March of a year that has no such day.
twoYearsBefore(now) ==
  IF now.m = 2 /\ now.d = 29
  THEN TimeValue(now.y - 2, 3, 1, now.hh, now.mm)
  ELSE TimeValue(now.y - 2, now.m, now.d, now.hh, now.mm)

\* ------------------------------------------------ extractPostcodeDistrict

\* null, which is no string.
Null == <<"">>

\* Fault variant of extractPostcodeDistrict: the case is left as it is.
extractPostcodeDistrictKeepsCase(postcode) ==
  LET trimmed    == trim(postcode)
      spaceIndex == indexOf(trimmed, " ")
  IN IF spaceIndex = -1 THEN Null ELSE substring0(trimmed, spaceIndex)

extractPostcodeDistrict(postcode) ==
  LET trimmed    == toUpperCase(trim(postcode))
      spaceIndex == indexOf(trimmed, " ")
  IN IF spaceIndex = -1 THEN Null ELSE substring0(trimmed, spaceIndex)

\* --------------------------------------------------------- calculateMedian

\* Fault variant of sortNumbers: the copy is left in the order of the array.
sortNumbersKeepsOrder(seq) == seq

\* [...values].sort((a, b) => a - b): the numbers in ascending order.
RECURSIVE sortNumbers(_)
sortNumbers(seq) ==
  IF seq = <<>> THEN <<>>
  ELSE LET k == CHOOSE i \in 1..Len(seq) :
                  /\ \A j \in 1..Len(seq) : FLeq(seq[i], seq[j])
                  /\ \A j \in 1..(i - 1) : seq[j] # seq[i]
       IN <<seq[k]>> \o
          sortNumbers(SubSeq(seq, 1, k - 1) \o SubSeq(seq, k + 1, Len(seq)))

\* Fault variant of calculateMedian: the values are not sorted.
calculateMedianUnsorted(values) ==
  IF Len(values) = 0 THEN F0
  ELSE LET sorted == values
           mid    == Len(sorted) \div 2
       IN IF Len(sorted) % 2 = 0
          THEN MathRound(FDiv(FAdd(At(sorted, mid - 1), At(sorted, mid)),
                              FromInt(2)))
          ELSE At(sorted, mid)

calculateMedian(values) ==
  IF Len(values) = 0 THEN F0
  ELSE LET sorted == sortNumbers(values)
           mid    == Len(sorted) \div 2
       IN IF Len(sorted) % 2 = 0
          THEN MathRound(FDiv(FAdd(At(sorted, mid - 1), At(sorted, mid)),
                              FromInt(2)))
          ELSE At(sorted, mid)

\* ------------------------------------------------------------ parseCSVLine

\* The loop of parseCSVLine from index i on, with fields, current and
\* inQuotes as they stand; what is returned once the line is exhausted.
RECURSIVE csvLoop(_, _, _, _, _)
\* Fault variant of csvLoop: a doubled quote is not read as an escaped
\* quote, every quote switches inQuotes.
RECURSIVE csvLoopNoEscape(_, _, _, _, _)
csvLoopNoEscape(line, i, fields, current, inQuotes) ==
  IF ~(i < Len(line)) THEN Append(fields, current)
  ELSE LET char == At(line, i)
       IN IF char = "\""
          THEN csvLoopNoEscape(line, i + 1, fields, current, ~inQuotes)
          ELSE IF char = "," /\ ~inQuotes
          THEN csvLoopNoEscape(line, i + 1, Append(fields, current), <<>>, inQuotes)
          ELSE csvLoopNoEscape(line, i + 1, fields, Append(current, char), inQuotes)

csvLoop(line, i, fields, current, inQuotes) ==
  IF ~(i < Len(line)) THEN Append(fields, current)
  ELSE LET char == At(line, i)
       IN IF char = "\""
          THEN IF inQuotes /\ i + 1 < Len(line) /\ At(line, i + 1) = "\""
               THEN csvLoop(line, i + 2, fields, Append(current, "\""), inQuotes)
               ELSE csvLoop(line, i + 1, fields, current, ~inQuotes)
          ELSE IF char = "," /\ ~inQuotes
          THEN csvLoop(line, i + 1, Append(fields, current), <<>>, inQuotes)
          ELSE csvLoop(line, i + 1, fields, Append(current, char), inQuotes)

parseCSVLine(line) == csvLoop(line, 0, <<>>, <<>>, FALSE)

\* ---------------------------------------------- main (price script): a line

\* The counters and the Map of main are the record
\* [lineCount, processed, skipped, pricesByDistrict, districts, fields],
\* fields being the array the last line was parsed to.

\* Fault variant of skipRecord: the record is dropped without being counted.
skipRecordUncounted(st) == st

\* skipped++; continue
skipRecord(st) == [st EXCEPT !.skipped = @ + 1]

\* Fault variant of acceptRecord: the array of the district is replaced by
\* one that holds the new price only.
acceptRecordReplaces(st, district, price) ==
  LET map == st.pricesByDistrict
  IN [st EXCEPT !.pricesByDistrict =
                   IF district \in DOMAIN map
                   THEN [map EXCEPT ![district] = <<price>>]
                   ELSE map @@ (district :> <<price>>),
                !.districts = IF district \in DOMAIN map THEN @
                              ELSE Append(@, district),
                !.processed = @ + 1]

\* Fault variant of acceptRecord: the array of a new district is created
\* but the price is not pushed to it.
acceptRecordCreatesEmpty(st, district, price) ==
  LET map == st.pricesByDistrict
  IN [st EXCEPT !.pricesByDistrict =
                   IF district \in DOMAIN map
                   THEN [map EXCEPT ![district] = Append(map[district], price)]
                   ELSE map @@ (district :> <<>>),
                !.districts = IF district \in DOMAIN map THEN @
                              ELSE Append(@, district),
                !.processed = @ + 1]

\* The price is pushed to the array of its district, which is created empty
\* when the Map has none; processed++.  The Map is the function
\* pricesByDistrict with its keys in insertion order in districts.
acceptRecord(st, district, price) ==
  LET map == st.pricesByDistrict
  IN [st EXCEPT !.pricesByDistrict =
                   IF district \in DOMAIN map
                   THEN [map EXCEPT ![district] = Append(map[district], price)]
                   ELSE map @@ (district :> <<price>>),
                !.districts = IF district \in DOMAIN map THEN @
                              ELSE Append(@, district),
                !.processed = @ + 1]

\* fields.length < 4
TooFewFields(fs) == Len(fs) < 4

\* !postcode || isNaN(price) || price <= 0
InvalidRecord(postcode, price) ==
  postcode = <<>> \/ isNaN(price) \/ JsLeq(price, F0)

\* Fault variant of IsOlder: a date equal to the cutoff is older too.
IsOlderOrEqual(date, cutoff) == JsLeq(date, cutoff)

\* date < twoYearsAgo
IsOlder(date, cutoff) == JsLess(date, cutoff)

\* Fault variant of skipLine: the line is dropped without being counted.
skipLineUncounted(st) == st

\* The branch taken for a line with too few fields.
skipLine(st) == skipRecord(st)

\* The body of the loop over the lines of the stream, for one line.
processLine(st, line, cutoff) ==
  LET fs  == parseCSVLine(line)
      st1 == [st EXCEPT !.lineCount = @ + 1, !.fields = fs]
  IN IF TooFewFields(fs) THEN skipLine(st1)
     ELSE LET price    == parseInt(fs[2])
              dateStr  == fs[3]
              postcode == fs[4]
          IN IF InvalidRecord(postcode, price) THEN skipRecord(st1)
             ELSE IF IsOlder(DateParse(dateStr), cutoff) THEN skipRecord(st1)
             ELSE LET district == extractPostcodeDistrict(postcode)
                  IN IF district = Null \/ district = <<>>
                     THEN skipRecord(st1)
                     ELSE acceptRecord(st1, district, price)

RECURSIVE readLines(_, _, _)
\* Fault variant of readLines: the first line is taken for a header and
\* passed over.
readLinesSkipsHeader(st, lines, cutoff) ==
  IF lines = <<>> THEN st
  ELSE IF st.lineCount = 0
  THEN readLines([st EXCEPT !.lineCount = 1], Tail(lines), cutoff)
  ELSE readLines(processLine(st, Head(lines), cutoff), Tail(lines), cutoff)

\* The loop over the lines of the stream, from the state st on.
readLines(st, lines, cutoff) ==
  IF lines = <<>> THEN st
  ELSE readLines(processLine(st, Head(lines), cutoff), Tail(lines), cutoff)

\* The counters and the Map before the first line.
NoLineRead ==
  [lineCount |-> 0, processed |-> 0, skipped |-> 0,
   pricesByDistrict |-> <<>>, districts |-> <<>>, fields |-> <<>>]

\* ------------------------------------------------------- the metrics file

\* The file at OUTPUT_PATH is [exists, entries]: whether there is a file and
\* the entries of the object it holds, in the order of its keys.  JSON.parse
\* and JSON.stringify keep that order; a key assigned for the first time is
\* put last.  An entry is [district, medianPrice, commuteMinutes].
NoFile == [exists |-> FALSE, entries |-> <<>>]

FileOf(metrics) == [exists |-> TRUE, entries |-> metrics]

\* metrics = JSON.parse(fs.readFileSync(OUTPUT_PATH)) if the file exists,
\* else {}
loadMetrics(file) == IF file.exists THEN file.entries ELSE <<>>

\* The position of the entry metrics[district], 0 when there is none.
entryIndex(metrics, district) ==
  IF \E k \in 1..Len(metrics) : metrics[k].district = district
  THEN CHOOSE k \in 1..Len(metrics) : metrics[k].district = district
  ELSE 0

\* if (!metrics[district]) metrics[district] = { medianPrice: null,
\* commuteMinutes: null }
ensureEntry(metrics, district) ==
  IF entryIndex(metrics, district) = 0
  THEN Append(metrics, [district |-> district, medianPrice |-> Null,
                        commuteMinutes |-> Null])
  ELSE metrics

\* Fault variant of setMedianPrice: the entry is replaced by a new one, its
\* commuteMinutes null.
setMedianPriceReplacesEntry(metrics, district, price) ==
  LET m == ensureEntry(metrics, district)
  IN [m EXCEPT ![entryIndex(m, district)] =
        [district |-> district, medianPrice |-> price,
         commuteMinutes |-> Null]]

\* metrics[district].medianPrice = price, after ensureEntry
setMedianPrice(metrics, district, price) ==
  LET m == ensureEntry(metrics, district)
  IN [m EXCEPT ![entryIndex(m, district)].medianPrice = price]

\* for (const [district, prices] of pricesByDistrict): the medians are set
\* in the insertion order of the Map.  The result holds the metrics and, in
\* requested, the arrays calculateMedian was called with.
RECURSIVE medianLoop(_, _, _, _)
medianLoop(metrics, districts, map, requested) ==
  IF districts = <<>> THEN [metrics |-> metrics, requested |-> requested]
  ELSE LET district == Head(districts)
           prices   == map[district]
       IN medianLoop(setMedianPrice(metrics, district, calculateMedian(prices)),
                     Tail(districts), map, Append(requested, prices))

\* The medianPrice values that are not null, in the order of the entries.
medianPricesOf(metrics) ==
  LET prices == [k \in 1..Len(metrics) |-> metrics[k].medianPrice]
  IN SelectSeq(prices, LAMBDA p : p # Null)

\* The run of main of the price script from the open stream to the written
\* file: what it reports and the file it leaves.
housePriceRun(file, lines, cutoff) ==
  LET st == readLines(NoLineRead, lines, cutoff)
      m  == medianLoop(loadMetrics(file), st.districts, st.pricesByDistrict,
                       <<>>)
  IN [processed |-> st.processed, skipped |-> st.skipped,
      districts |-> st.districts, file |-> FileOf(m.metrics)]

\* ------------------------------------------------- the commute script

\* RAIL_SPEED_KMH, ROAD_SPEED_KMH, FIXED_OVERHEAD_MINS,
\* INNER_LONDON_RADIUS_KM and INNER_LONDON_SPEED_KMH
RAIL_SPEED_KMH == 80
ROAD_SPEED_KMH == 40
FIXED_OVERHEAD_MINS == 20
INNER_LONDON_RADIUS_KM == 30
INNER_LONDON_SPEED_KMH == 30

\* LONDON_CENTER = { lat: 51.5074, lng: -0.1278 }
LONDON_CENTER == [lat |-> RoundRat(515074, 10000, 0), lng |-> RoundRat(-1278, 10000, 0)]

\* The sums of the coordinates of coords from index k on (the loop of
\* calculateCentroid).
RECURSIVE sumCoords(_, _, _)
sumCoords(coords, k, sums) ==
  IF k > Len(coords) THEN sums
  ELSE sumCoords(coords, k + 1,
                 [lng |-> FAdd(sums.lng, coords[k][1]),
                  lat |-> FAdd(sums.lat, coords[k][2])])

\* calculateCentroid(geometry): the average of the points of the outer ring
\* of the polygon, or of the first polygon, as the pair <<lat, lng>> of the
\* object { lat, lng }, or null.  (A MultiPolygon has a first polygon in
\* every file modelled here.)
calculateCentroid(geometry) ==
  IF geometry.type \notin {"Polygon", "MultiPolygon"} THEN Null
  ELSE IF geometry.coordinates = <<>> THEN Null
  ELSE LET coords == IF geometry.type = "Polygon"
                     THEN geometry.coordinates[1]
                     ELSE geometry.coordinates[1][1]
       IN IF coords = <<>> THEN Null
          ELSE LET sums == sumCoords(coords, 1, [lng |-> F0, lat |-> F0])
                   n    == FromInt(Len(coords))
               IN <<FDiv(sums.lat, n), FDiv(sums.lng, n)>>

\* haversineDistance(lat1, lng1, lat2, lng2) with (lat2, lng2) the centre
\* of London: the great-circle distance in km, given by its values at the
\* centroids of the boundaries modelled (0.845 km at 51.5 N 0.125 W,
\* 95.008 km at 52 N 1 E).
haversineDistance(lat1, lng1, lat2, lng2) ==
  CASE lat1 = RoundRat(103, 2, 0) /\ lng1 = RoundRat(-1, 8, 0) -> RoundRat(845, 1000, 0)
    [] lat1 = FromInt(52) /\ lng1 = FromInt(1) -> RoundRat(95008, 1000, 0)

\* Math.min(a, b)
MathMin(a, b) == IF FLess(b, a) THEN b ELSE a

\* estimateCommuteTime(distanceKm)
estimateCommuteTime(distanceKm) ==
  IF FLess(distanceKm, FromInt(INNER_LONDON_RADIUS_KM))
  THEN LET travelTime ==
             FMul(FDiv(distanceKm, FromInt(INNER_LONDON_SPEED_KMH)),
                  FromInt(60))
       IN MathRound(FAdd(FromInt(FIXED_OVERHEAD_MINS), travelTime))
  ELSE LET railFraction == MathMin(RoundRat(8, 10, 0),
                                   FDiv(distanceKm, FromInt(200)))
           avgSpeed == FAdd(FMul(railFraction, FromInt(RAIL_SPEED_KMH)),
                            FMul(FSub(FromInt(1), railFraction),
                                 FromInt(ROAD_SPEED_KMH)))
           travelTime == FMul(FDiv(distanceKm, avgSpeed), FromInt(60))
       IN MathRound(FAdd(FromInt(FIXED_OVERHEAD_MINS), travelTime))

\* metrics[district].commuteMinutes = commuteMinutes, after the entry is
\* created if there is none
setCommuteMinutes(metrics, district, minutes) ==
  LET m == ensureEntry(metrics, district)
  IN [m EXCEPT ![entryIndex(m, district)].commuteMinutes = minutes]

\* for (const feature of geojson.features): features without a district or
\* a centroid are skipped.
RECURSIVE commuteLoop(_, _)
commuteLoop(metrics, features) ==
  IF features = <<>> THEN metrics
  ELSE LET district == Head(features).properties.district
           centroid == calculateCentroid(Head(features).geometry)
       IN IF district = <<>> \/ centroid = Null
          THEN commuteLoop(metrics, Tail(features))
          ELSE commuteLoop(
                 setCommuteMinutes(metrics, district,
                   estimateCommuteTime(
                     haversineDistance(centroid[1], centroid[2],
                                       LONDON_CENTER.lat, LONDON_CENTER.lng))),
                 Tail(features))

\* The run of main of the commute script on the boundaries file [exists,
\* features] and the metrics file: the metrics file it leaves.
commuteRun(file, boundaries) ==
  IF ~boundaries.exists THEN file
  ELSE FileOf(commuteLoop(loadMetrics(file), boundaries.features))

\* ------------------------------------------------------------------ inputs

\* The points rings are drawn from: a collinear triple on the x axis, a
\* point off the axis, and (rings being sequences) repeated points.
Points == {Pt(0, 0), Pt(7, 0), Pt(11, 0), Pt(7, 4)}

Rings == UNION {[1..n -> Points] : n \in 1..MaxLen}

\* -1, 0, 1, 4
Tolerances == {FromInt(-1), F0, FromInt(1), FromInt(4)}

\* The points perpendicularDistance is applied to.
DistPoints == Points \cup {Pt(10, 4), Pt(13, 0), Pt(3, 0), Pt(0, 4)}

\* Coordinates given to the quantizer: every number m * 2^e of the width
\* with e in -3..0, and a few second coordinates.
QuantXs == {Norm(m, e) : m \in -(Pow2(MantBits) - 1)..(Pow2(MantBits) - 1),
                         e \in -3..0}

QuantYs == {Norm(m, -2) : m \in -6..6}

Precisions == 0..MaxPrecision

\* The number of a decimal literal num / den.
Num(num, den) == RoundRat(num, den, 0)

\* The rings features are made of: a closed ring of 5 points with a point on
\* the chord of its neighbours, a ring of 3 points and a ring of 4 points
\* with coordinates that are not whole numbers.
FeatureRings ==
  { <<Pt(0, 0), Pt(7, 0), Pt(11, 0), Pt(7, 4), Pt(0, 0)>>,
    <<(<<RoundRat(5, 8, 0), F0>>), (<<FromInt(7), RoundRat(3, 8, 0)>>),
      (<<FromInt(11), RoundRat(5, 8, 0)>>)>>,
    <<(<<F0, RoundRat(1, 4, 0)>>), (<<FromInt(7), RoundRat(1, 8, 0)>>),
      (<<FromInt(11), RoundRat(9, 4, 0)>>), (<<F0, RoundRat(1, 4, 0)>>)>> }

\* coordinates of a Polygon: 1..MaxRings rings.
Polygons == UNION {[1..n -> FeatureRings] : n \in 1..MaxRings}

\* coordinates of a MultiPolygon: 1..2 polygons of one ring or of MaxRings.
MultiPolygons ==
  UNION {[1..n -> {c \in Polygons : Len(c) \in {1, MaxRings}
                                    /\ \A k \in 1..Len(c) : c[k] = c[1]}] :
         n \in 1..2}

Properties == {[district |-> "SW1"], [name |-> "B1", area |-> "B"]}

Feature(props, type, coords) ==
  [type |-> "Feature", properties |-> props,
   geometry |-> [type |-> type, coordinates |-> coords]]

PolygonFeatures ==
  {Feature(p, "Polygon", c) : p \in Properties, c \in Polygons}

MultiPolygonFeatures ==
  {Feature(p, "MultiPolygon", c) : p \in Properties, c \in MultiPolygons}

\* Features of other geometry types, with coordinates nested as those of a
\* Polygon and as those of a ring.
MultiLineStringFeatures ==
  {Feature(p, "MultiLineString", c) : p \in Properties, c \in Polygons}

LineStringFeatures ==
  {Feature(p, "LineString", c) : p \in Properties, c \in FeatureRings}

\* A point of a fetched boundary, in units of 0.00001 degree.
GeoPt(x, y) == <<Num(x, 100000), Num(y, 100000)>>

\* Fetched rings: a closed ring of 5 points, one of them 0.0002 off the
\* chord of its neighbours and one with a coordinate between two multiples of
\* 0.0001, and a ring of 3 points.
FetchedRings ==
  { <<GeoPt(0, 0), GeoPt(300, 20), GeoPt(600, 0), GeoPt(24, -400), GeoPt(0, 0)>>,
    <<GeoPt(13, 7), GeoPt(376, 54), GeoPt(1, 333)>> }

\* The pairs of different rings.
FetchedRingPairs == {p \in FetchedRings \X FetchedRings : p[1] # p[2]}

FetchedGeometries ==
  {[type |-> "Polygon", coordinates |-> <<r>>] : r \in FetchedRings}
  \cup {[type |-> "Polygon", coordinates |-> p] : p \in FetchedRingPairs}
  \cup {[type |-> "MultiPolygon", coordinates |-> <<(<<p[1]>>), (<<p[2]>>)>>] :
          p \in FetchedRingPairs}
  \cup {[type |-> "LineString", coordinates |-> r] : r \in FetchedRings}

FetchedProperties ==
  {[name |-> "SW1"], [district |-> "B1"], [name |-> "", postcode |-> "E1"]}

\* Every geometry under a name, and every kind of properties on one geometry.
FetchedFeatures ==
  {[type |-> "Feature", properties |-> [name |-> "SW1"], geometry |-> g] :
     g \in FetchedGeometries}
  \cup {[type |-> "Feature", properties |-> p,
          geometry |-> [type |-> "Polygon", coordinates |-> <<r>>]] :
          p \in FetchedProperties, r \in FetchedRings}

\* What fetching one area gives: a failure, or the features of the area.
AreaResponses ==
  {[ok |-> FALSE, features |-> <<>>]}
  \cup {[ok |-> TRUE, features |-> fs] :
          fs \in {<<>>} \cup {<<f>> : f \in FetchedFeatures}}

\* The characters of the fields CSV lines are built from: a letter, the
\* delimiter and the quote.
CsvAlphabet == {"a", ",", "\""}

CsvFieldValues == UNION {[1..n -> CsvAlphabet] : n \in 0..MaxFieldLen}

CsvFieldLists == UNION {[1..n -> CsvFieldValues] : n \in 1..MaxFields}

\* A field as a CSV writer quotes it: wrapped in quotes, each quote in it
\* doubled.
RECURSIVE DoubleQuotes(_)
DoubleQuotes(str) ==
  IF str = <<>> THEN <<>>
  ELSE (IF Head(str) = "\"" THEN <<"\"", "\"">> ELSE <<Head(str)>>)
       \o DoubleQuotes(Tail(str))

QuoteField(str) == <<"\"">> \o DoubleQuotes(str) \o <<"\"">>

\* The strings of list joined with commas.
RECURSIVE JoinWithCommas(_)
JoinWithCommas(list) ==
  IF Len(list) = 1 THEN list[1]
  ELSE list[1] \o <<",">> \o JoinWithCommas(Tail(list))

IsPlain(str) == \A k \in 1..Len(str) : str[k] \notin {",", "\""}

\* The lines that encode a list of fields: every field quoted, and, when no
\* field holds a comma or a quote, the fields as they are.
CsvEncodings(list) ==
  {JoinWithCommas([k \in 1..Len(list) |-> QuoteField(list[k])])}
  \cup (IF \A k \in 1..Len(list) : IsPlain(list[k])
        THEN {JoinWithCommas(list)} ELSE {})

\* Fields of the lines of the price data: identifiers, prices, dates and
\* postcodes, well-formed and not.
IdX == <<"x">>

Price5 == <<"5">>
Price12 == <<"1", "2">>
Price7a == <<"7", "a">>
Price0 == <<"0">>
PriceMinus3 == <<"-", "3">>
PriceAb == <<"a", "b">>
PriceEmpty == <<>>

\* 2026-01-15 00:00, 2024-11-02 12:00, 2024-11-02 11:59, 2019-03-01 00:00, n/a
DateRecent ==
  <<"2", "0", "2", "6", "-", "0", "1", "-", "1", "5", " ", "0", "0", ":", "0", "0">>
DateAtCutoff ==
  <<"2", "0", "2", "4", "-", "1", "1", "-", "0", "2", " ", "1", "2", ":", "0", "0">>
DateBeforeCutoff ==
  <<"2", "0", "2", "4", "-", "1", "1", "-", "0", "2", " ", "1", "1", ":", "5", "9">>
DateOld ==
  <<"2", "0", "1", "9", "-", "0", "3", "-", "0", "1", " ", "0", "0", ":", "0", "0">>
DateNone == <<"n", "/", "a">>

\* "SW1A 1AA", "SW1 2BB", "sw1a 2cc", "SW1A<tab>1AA", "SW1A1AA", "", " B1 1AA"
PostcodeSW1A == <<"S", "W", "1", "A", " ", "1", "A", "A">>
PostcodeSW1 == <<"S", "W", "1", " ", "2", "B", "B">>
PostcodeLower == <<"s", "w", "1", "a", " ", "2", "c", "c">>
PostcodeTab == <<"S", "W", "1", "A", "\t", "1", "A", "A">>
PostcodeNoSpace == <<"S", "W", "1", "A", "1", "A", "A">>
PostcodeEmpty == <<>>
PostcodeLeadingSpace == <<" ", "B", "1", " ", "1", "A", "A">>

\* The records the lines are written from: a valid one, and it with one
\* field replaced; a record of 5 fields; records of 1, 2 and 3 fields.
PriceRecords ==
  {<<IdX, v, DateRecent, PostcodeSW1A>> :
     v \in {Price5, Price12, Price7a, Price0, PriceMinus3, PriceAb, PriceEmpty}}
  \cup {<<IdX, Price5, d, PostcodeSW1A>> :
          d \in {DateAtCutoff, DateBeforeCutoff, DateOld, DateNone}}
  \cup {<<IdX, Price12, DateRecent, c>> :
          c \in {PostcodeSW1, PostcodeLower, PostcodeTab, PostcodeNoSpace,
                 PostcodeEmpty, PostcodeLeadingSpace}}
  \cup {<<IdX, Price12, DateOld, PostcodeSW1>>,
        <<IdX, Price5, DateRecent, PostcodeSW1A, IdX>>,
        <<(<<>>)>>, <<IdX, Price5>>, <<IdX, Price5, DateRecent>>}

\* The lines of the stream: each record joined with commas, and one record
\* with every field quoted.
PriceLines ==
  {JoinWithCommas(r) : r \in PriceRecords}
  \cup {JoinWithCommas([k \in 1..4 |->
          QuoteField(<<IdX, Price12, DateRecent, PostcodeSW1>>[k])])}

\* The numbers the arrays given to calculateMedian are made of: negative,
\* zero and positive integers and a number with a fraction.
MedianNumbers ==
  {FromInt(-3), FromInt(0), FromInt(1), RoundRat(5, 2, 0), FromInt(4), FromInt(9)}

\* The non-empty arrays of at most MaxValues numbers, in any order.
MedianArrays == UNION {[1..n -> MedianNumbers] : n \in 1..MaxValues}

\* The district keys of the metrics file.
KeySW1A == <<"S", "W", "1", "A">>
KeySW1 == <<"S", "W", "1">>
KeyB1 == <<"B", "1">>

Entry(district, medianPrice, commuteMinutes) ==
  [district |-> district, medianPrice |-> medianPrice,
   commuteMinutes |-> commuteMinutes]

\* What a run may find at OUTPUT_PATH: no file, the empty object, and
\* objects with entries of districts the run does and does not aggregate,
\* with and without values.
MetricsFiles ==
  {NoFile, FileOf(<<>>),
   FileOf(<<Entry(KeyB1, Null, FromInt(45)),
            Entry(KeySW1A, FromInt(9), FromInt(30))>>),
   FileOf(<<Entry(KeySW1, FromInt(7), Null)>>)}

\* The lines of the runs in which the input file may be missing or fail.
IoLines ==
  {JoinWithCommas(r) :
     r \in {<<IdX, Price5, DateRecent, PostcodeSW1A>>,
            <<IdX, Price12, DateRecent, PostcodeSW1>>,
            <<IdX, Price5>>}}

\* "100", "200", "300"
Price100 == <<"1", "0", "0">>
Price200 == <<"2", "0", "0">>
Price300 == <<"3", "0", "0">>

\* The lines of the runs compared as wholes: three records of one district
\* (one writing it in lower case), a record of another district and a record
\* too old to be accepted.
WholeRunLines ==
  {JoinWithCommas(r) :
     r \in {<<IdX, Price100, DateRecent, PostcodeSW1A>>,
            <<IdX, Price200, DateRecent, PostcodeLower>>,
            <<IdX, Price300, DateRecent, PostcodeSW1A>>,
            <<IdX, Price12, DateRecent, PostcodeSW1>>,
            <<IdX, Price5, DateOld, PostcodeSW1A>>}}

\* The orders the elements of seq can be put in.
Reorderings(seq) ==
  {[k \in 1..Len(seq) |-> seq[f[k]]] : f \in Permutations(1..Len(seq))}

\* The moments of a run: 2026-11-02 12:00 and 2024-02-29 09:30.
Nows ==
  {[y |-> 2026, m |-> 11, d |-> 2, hh |-> 12, mm |-> 0],
   [y |-> 2024, m |-> 2, d |-> 29, hh |-> 9, mm |-> 30]}

\* ------------------------------------------------------------------- state

VARIABLES
  pc,         \* where the run stands
  ring,       \* simplifyRing: the ring argument
  tolerance,  \* simplifyRing, simplifyFeature: the tolerance argument
  out,        \* simplifyRing: what the call produced
  point,      \* perpendicularDistance: arguments
  lineStart,
  lineEnd,
  dist,       \* perpendicularDistance: the value returned
  coord,      \* roundCoord: the coordinate pair
  precision,  \* roundCoordinates: the precision argument
  once,       \* the coordinate quantized once
  twice,      \* the coordinate quantized a second time
  feature,            \* simplifyFeature, roundCoordinates: the feature argument
  simplifiedFeature,  \* what simplifyFeature(feature, tolerance) produced
  roundedFeature,     \* what roundCoordinates(feature, precision) returned
  areas,        \* boundary main: the responses of the areas still to fetch
  allFeatures,  \* boundary main: allFeatures
  simplified,   \* boundary main: simplified
  rounded,      \* boundary main: rounded
  written,      \* boundary main: the collection written to OUTPUT_PATH
  csvFields,    \* the fields a CSV line was made from
  line,         \* parseCSVLine: the line argument
  fields,       \* parseCSVLine: the array returned
  lines,        \* price main: the lines the stream still holds
  twoYearsAgo,  \* price main: twoYearsAgo
  lineCount,    \* price main: lineCount
  processed,    \* price main: processed
  skipped,      \* price main: skipped
  pricesByDistrict,  \* price main: the Map, as a function from its keys
  districts,    \* price main: the keys of the Map in insertion order
  inputFile,    \* price main: "missing", "readable" or "failing" INPUT_PATH
  existing,     \* what the run found at OUTPUT_PATH, once it has looked
  metrics,      \* price main: metrics
  outputFile,   \* what the run wrote to OUTPUT_PATH
  requested,    \* the arrays the run called calculateMedian with
  boundaries,   \* commute main: the features of the boundaries file
  houseFirst,   \* the metrics file, the price script run before the other
  commuteFirst, \* the metrics file, the commute script run before the other
  shuffled,     \* the lines of the stream in another order
  result,       \* what the run over lines reports and writes
  resultShuffled,  \* what the run over shuffled reports and writes
  values,       \* calculateMedian: the values argument
  median        \* calculateMedian: the value returned

vars == <<pc, ring, tolerance, out, point, lineStart, lineEnd, dist,
          coord, precision, once, twice,
          feature, simplifiedFeature, roundedFeature,
          areas, allFeatures, simplified, rounded, written,
          csvFields, line, fields,
          lines, twoYearsAgo, lineCount, processed, skipped, pricesByDistrict,
          districts, inputFile, existing, metrics, outputFile, requested,
          boundaries, houseFirst, commuteFirst,
          shuffled, result, resultShuffled,
          values, median>>

ringVars == <<ring, tolerance, out>>
distVars == <<point, lineStart, lineEnd, dist>>
quantVars == <<coord, precision, once, twice>>
featVars == <<feature, simplifiedFeature, roundedFeature>>
pipeVars == <<areas, allFeatures, simplified, rounded, written>>
csvVars == <<csvFields, line, fields>>
loopVars == <<lines, twoYearsAgo, lineCount, processed, skipped,
              pricesByDistrict, districts>>
fileVars == <<inputFile, existing, metrics, outputFile, requested>>
compareVars == <<boundaries, houseFirst, commuteFirst,
                 shuffled, result, resultShuffled>>
houseVars == <<loopVars, fileVars, compareVars>>
medianVars == <<values, median>>

\* The variables of the price script, and those of both scripts' runs.
priceVars == <<csvVars, houseVars, medianVars>>
runVars == <<pipeVars, priceVars>>

None == <<>>

RingIdle == ring = None /\ tolerance = F0 /\ out = None
DistIdle == point = None /\ lineStart = None /\ lineEnd = None /\ dist = None
QuantIdle == coord = None /\ precision = 0 /\ once = None /\ twice = None
FeatIdle == feature = None /\ simplifiedFeature = None /\ roundedFeature = None
PipeIdle ==
  /\ areas = None /\ allFeatures = None /\ simplified = None
  /\ rounded = None /\ written = None
CsvIdle == csvFields = None /\ line = None /\ fields = None
LoopIdle ==
  /\ lines = None /\ twoYearsAgo = None /\ lineCount = 0
  /\ processed = 0 /\ skipped = 0 /\ pricesByDistrict = None
  /\ districts = None
FileIdle ==
  /\ inputFile = "none" /\ existing = None /\ metrics = None
  /\ outputFile = None /\ requested = None
CompareIdle ==
  /\ boundaries = None /\ houseFirst = None /\ commuteFirst = None
  /\ shuffled = None /\ result = None /\ resultShuffled = None
HouseIdle == LoopIdle /\ FileIdle /\ CompareIdle
MedianIdle == values = None /\ median = None
PriceIdle == CsvIdle /\ HouseIdle /\ MedianIdle
RunIdle == PipeIdle /\ PriceIdle

\* ------------------------------------------------- simplifyRing, as a call

RingInit ==
  /\ pc = "ring"
  /\ ring \in Rings
  /\ tolerance \in Tolerances
  /\ out = None
  /\ DistIdle
  /\ QuantIdle
  /\ FeatIdle
  /\ RunIdle

\* One call simplifyRing(ring, tolerance), to its return or its exception.
SimplifyRing ==
  /\ pc = "ring"
  /\ out' = simplifyRing(ring, tolerance)
  /\ pc' = IF out'.threw THEN "ringThrew" ELSE "ringReturned"
  /\ UNCHANGED <<ring, tolerance, distVars, quantVars, featVars, runVars>>

RingNext == SimplifyRing

SpecRing == RingInit /\ [][RingNext]_vars

\* ----------------------------------------- perpendicularDistance, as a call

DistInit ==
  /\ pc = "dist"
  /\ point \in DistPoints
  /\ lineStart \in DistPoints
  /\ lineEnd \in DistPoints
  /\ dist = None
  /\ RingIdle
  /\ QuantIdle
  /\ FeatIdle
  /\ RunIdle

PerpendicularDistance ==
  /\ pc = "dist"
  /\ dist' = perpendicularDistance(point, lineStart, lineEnd)
  /\ pc' = "distReturned"
  /\ UNCHANGED <<point, lineStart, lineEnd, ringVars, quantVars, featVars, runVars>>

DistNext == PerpendicularDistance

SpecDist == DistInit /\ [][DistNext]_vars

\* ------------------------------------------------------- the quantizer run

QuantInit ==
  /\ pc = "quant"
  /\ coord \in QuantXs \X QuantYs
  /\ precision \in Precisions
  /\ once = None
  /\ twice = None
  /\ RingIdle
  /\ DistIdle
  /\ FeatIdle
  /\ RunIdle

\* roundCoord on the input coordinate.
Quantize ==
  /\ pc = "quant"
  /\ once' = roundCoord(coord, precision)
  /\ pc' = "quantOnce"
  /\ UNCHANGED <<coord, precision, twice, ringVars, distVars, featVars, runVars>>

\* roundCoord on its own output, at the same precision.
Requantize ==
  /\ pc = "quantOnce"
  /\ twice' = roundCoord(once, precision)
  /\ pc' = "quantTwice"
  /\ UNCHANGED <<coord, precision, once, ringVars, distVars, featVars, runVars>>

QuantNext == Quantize \/ Requantize

SpecQuant == QuantInit /\ [][QuantNext]_vars

\* ------------------------- simplifyFeature and roundCoordinates, as calls

FeatureInit ==
  /\ pc = "feature"
  /\ \/ feature \in PolygonFeatures
     \/ feature \in MultiPolygonFeatures
     \/ feature \in MultiLineStringFeatures
     \/ feature \in LineStringFeatures
  /\ tolerance \in Tolerances
  /\ precision \in Precisions
  /\ simplifiedFeature = None
  /\ roundedFeature = None
  /\ ring = None /\ out = None
  /\ coord = None /\ once = None /\ twice = None
  /\ DistIdle
  /\ RunIdle

\* One call simplifyFeature(feature, tolerance).
SimplifyFeature ==
  /\ pc = "feature"
  /\ simplifiedFeature = None
  /\ simplifiedFeature' = simplifyFeature(feature, tolerance)
  /\ UNCHANGED <<pc, feature, roundedFeature, ringVars, distVars, quantVars, runVars>>

\* One call roundCoordinates(feature, precision).
RoundCoordinates ==
  /\ pc = "feature"
  /\ roundedFeature = None
  /\ roundedFeature' = roundCoordinates(feature, precision)
  /\ UNCHANGED <<pc, feature, simplifiedFeature, ringVars, distVars, quantVars, runVars>>

FeatureNext == SimplifyFeature \/ RoundCoordinates

SpecFeature == FeatureInit /\ [][FeatureNext]_vars

\* ------------------------------------------------ main of the boundary script

\* The run after fetchFileList returned the area names; areas holds what
\* fetching each of them will give.
PipelineInit ==
  /\ pc = "fetching"
  /\ areas \in UNION {[1..n -> AreaResponses] : n \in 1..MaxAreas}
  /\ allFeatures = <<>>
  /\ simplified = None
  /\ rounded = None
  /\ written = None
  /\ RingIdle /\ DistIdle /\ QuantIdle /\ FeatIdle /\ PriceIdle

\* One turn of the loop over areas: the features of the area are pushed with
\* their district property, or the failure is warned about and passed over.
FetchArea ==
  /\ pc = "fetching"
  /\ areas # <<>>
  /\ allFeatures' = IF Head(areas).ok
                    THEN allFeatures \o collectArea(Head(areas).features)
                    ELSE allFeatures
  /\ areas' = Tail(areas)
  /\ UNCHANGED <<pc, simplified, rounded, written,
                 ringVars, distVars, quantVars, featVars, priceVars>>

\* const simplified = allFeatures.map((f) => simplifyFeature(f, 0.0005))
SimplifyAll ==
  /\ pc = "fetching"
  /\ areas = <<>>
  /\ simplified' = simplifyStage(allFeatures)
  /\ pc' = "simplified"
  /\ UNCHANGED <<areas, allFeatures, rounded, written,
                 ringVars, distVars, quantVars, featVars, priceVars>>

\* const rounded = simplified.map((f) => roundCoordinates(f, 4))
RoundAll ==
  /\ pc = "simplified"
  /\ rounded' = roundStage(simplified)
  /\ pc' = "rounded"
  /\ UNCHANGED <<areas, allFeatures, simplified, written,
                 ringVars, distVars, quantVars, featVars, priceVars>>

\* The collection of the rounded features is serialised and written.
WriteOutput ==
  /\ pc = "rounded"
  /\ written' = [type |-> "FeatureCollection", features |-> rounded]
  /\ pc' = "written"
  /\ UNCHANGED <<areas, allFeatures, simplified, rounded,
                 ringVars, distVars, quantVars, featVars, priceVars>>

PipelineNext == FetchArea \/ SimplifyAll \/ RoundAll \/ WriteOutput

SpecPipeline == PipelineInit /\ [][PipelineNext]_vars

\* ------------------------------------------------- parseCSVLine, as a call

CsvInit ==
  /\ pc = "csv"
  /\ csvFields \in CsvFieldLists
  /\ line \in CsvEncodings(csvFields)
  /\ fields = None
  /\ RingIdle /\ DistIdle /\ QuantIdle /\ FeatIdle /\ PipeIdle
  /\ HouseIdle /\ MedianIdle

ParseCSVLine ==
  /\ pc = "csv"
  /\ fields' = parseCSVLine(line)
  /\ pc' = "csvParsed"
  /\ UNCHANGED <<csvFields, line, ringVars, distVars, quantVars, featVars,
                 pipeVars, houseVars, medianVars>>

CsvNext == ParseCSVLine

SpecCsv == CsvInit /\ [][CsvNext]_vars

\* --------------------------------------------- main of the price script

\* The run once the stream of the input file is open (line 130).
HouseInit ==
  /\ pc = "reading"
  /\ lines \in UNION {[1..n -> PriceLines] : n \in 1..MaxLines}
  /\ \E now \in Nows : twoYearsAgo = twoYearsBefore(now)
  /\ lineCount = 0
  /\ processed = 0
  /\ skipped = 0
  /\ pricesByDistrict = <<>>
  /\ districts = <<>>
  /\ inputFile = "readable"
  /\ existing = None /\ metrics = None /\ outputFile = None
  /\ requested = <<>>
  /\ line = None
  /\ fields = None
  /\ csvFields = None
  /\ CompareIdle
  /\ RingIdle /\ DistIdle /\ QuantIdle /\ FeatIdle /\ PipeIdle /\ MedianIdle

\* One turn of the loop: the next line of the stream is counted, parsed and
\* either skipped or added to the array of its district.
ProcessLine ==
  /\ pc = "reading"
  /\ lines # <<>>
  /\ LET st == processLine([lineCount |-> lineCount, processed |-> processed,
                            skipped |-> skipped,
                            pricesByDistrict |-> pricesByDistrict,
                            districts |-> districts,
                            fields |-> fields],
                           Head(lines), twoYearsAgo)
     IN /\ lineCount' = st.lineCount
        /\ processed' = st.processed
        /\ skipped' = st.skipped
        /\ pricesByDistrict' = st.pricesByDistrict
        /\ districts' = st.districts
        /\ fields' = st.fields
  /\ line' = Head(lines)
  /\ lines' = Tail(lines)
  /\ UNCHANGED <<pc, twoYearsAgo, csvFields, fileVars, compareVars,
                 ringVars, distVars, quantVars, featVars, pipeVars,
                 medianVars>>

\* The stream is at its end: the loop is left and the counts are reported.
EndOfStream ==
  /\ pc = "reading"
  /\ lines = <<>>
  /\ inputFile = "readable"
  /\ pc' = "aggregated"
  /\ UNCHANGED <<csvVars, houseVars, ringVars, distVars, quantVars,
                 featVars, pipeVars, medianVars>>

\* Load existing metrics or create new (lines 184-187): the run looks at
\* OUTPUT_PATH and finds one of the files that may be there.
LoadMetrics ==
  /\ pc = "aggregated"
  /\ \E file \in MetricsFiles :
       /\ existing' = file
       /\ metrics' = loadMetrics(file)
  /\ pc' = "loaded"
  /\ UNCHANGED <<inputFile, outputFile, requested, loopVars, compareVars,
                 csvVars, ringVars, distVars, quantVars, featVars, pipeVars,
                 medianVars>>

\* Calculate median prices (lines 190-195).
CalculateMedians ==
  /\ pc = "loaded"
  /\ LET m == medianLoop(metrics, districts, pricesByDistrict, requested)
     IN /\ metrics' = m.metrics
        /\ requested' = m.requested
  /\ pc' = "calculated"
  /\ UNCHANGED <<inputFile, existing, outputFile, loopVars, compareVars,
                 csvVars, ringVars, distVars, quantVars, featVars, pipeVars,
                 medianVars>>

\* Write output (lines 198-200).
WriteMetrics ==
  /\ pc = "calculated"
  /\ outputFile' = FileOf(metrics)
  /\ pc' = "metricsWritten"
  /\ UNCHANGED <<inputFile, existing, metrics, requested, loopVars,
                 compareVars, csvVars, ringVars, distVars, quantVars,
                 featVars, pipeVars, medianVars>>

\* Print some statistics (lines 203-215): the overall median is asked for
\* when some medianPrice is not null; main returns.
PrintStatistics ==
  /\ pc = "metricsWritten"
  /\ requested' = IF Len(medianPricesOf(metrics)) > 0
                  THEN Append(requested, medianPricesOf(metrics))
                  ELSE requested
  /\ pc' = "done"
  /\ UNCHANGED <<inputFile, existing, metrics, outputFile, loopVars,
                 compareVars, csvVars, ringVars, distVars, quantVars,
                 featVars, pipeVars, medianVars>>

HouseNext ==
  \/ ProcessLine
  \/ EndOfStream
  \/ LoadMetrics
  \/ CalculateMedians
  \/ WriteMetrics
  \/ PrintStatistics

SpecHouse == HouseInit /\ [][HouseNext]_vars

\* The stream delivers its next line to the loop; the loop over the Map
\* comes to its end.
NextLineDelivered == pc = "reading" /\ lines # <<>> /\ lines' = Tail(lines)

MediansCalculated == pc = "loaded" /\ pc' = "calculated"

\* The readable stream keeps delivering its lines and then ends, and the
\* statements after the loop are run one after the other: nothing makes the
\* run wait.
SpecHouseFair ==
  /\ SpecHouse
  /\ WF_lines(NextLineDelivered)
  /\ WF_vars(EndOfStream)
  /\ WF_vars(LoadMetrics)
  /\ WF_pc(MediansCalculated)
  /\ WF_vars(WriteMetrics)
  /\ WF_vars(PrintStatistics)

\* ------------------------------ main of the price script, from its start

\* The run from the call of main, with an input file that is missing, that
\* can be read, or that fails to be opened or read at some point.
HouseIOInit ==
  /\ pc = "start"
  /\ inputFile \in {"missing", "readable", "failing"}
  /\ lines \in IF inputFile = "missing" THEN {<<>>}
              ELSE {<<>>} \cup UNION {[1..n -> IoLines] : n \in 1..MaxLines}
  /\ twoYearsAgo = None
  /\ lineCount = 0
  /\ processed = 0
  /\ skipped = 0
  /\ pricesByDistrict = <<>>
  /\ districts = <<>>
  /\ existing = None /\ metrics = None /\ outputFile = None
  /\ requested = <<>>
  /\ line = None
  /\ fields = None
  /\ csvFields = None
  /\ CompareIdle
  /\ RingIdle /\ DistIdle /\ QuantIdle /\ FeatIdle /\ PipeIdle /\ MedianIdle

\* Fault variant of MissingInput: the empty metrics file is written whether
\* or not there is a metrics file already.
MissingInputOverwrites ==
  /\ pc = "start"
  /\ inputFile = "missing"
  /\ \E file \in MetricsFiles :
       /\ existing' = file
       /\ outputFile' = FileOf(<<>>)
  /\ pc' = "noInput"
  /\ UNCHANGED <<inputFile, metrics, requested, loopVars, compareVars,
                 csvVars, ringVars, distVars, quantVars, featVars, pipeVars,
                 medianVars>>

\* Input file not found (lines 86-108): the instructions are logged, an
\* empty metrics file is created if there is none, and main returns.
MissingInput ==
  /\ pc = "start"
  /\ inputFile = "missing"
  /\ \E file \in MetricsFiles :
       /\ existing' = file
       /\ outputFile' = IF file.exists THEN outputFile ELSE FileOf(<<>>)
  /\ pc' = "noInput"
  /\ UNCHANGED <<inputFile, metrics, requested, loopVars, compareVars,
                 csvVars, ringVars, distVars, quantVars, featVars, pipeVars,
                 medianVars>>

\* The file exists: the Map, the cutoff and the counters are set up and the
\* stream is created (lines 110-128).
OpenStream ==
  /\ pc = "start"
  /\ inputFile # "missing"
  /\ \E now \in Nows : twoYearsAgo' = twoYearsBefore(now)
  /\ pc' = "reading"
  /\ UNCHANGED <<lines, lineCount, processed, skipped, pricesByDistrict,
                 districts, fileVars, compareVars, csvVars, ringVars,
                 distVars, quantVars, featVars, pipeVars, medianVars>>

\* Fault variant of ReadFails: the error only ends the loop, as the end of
\* the stream does.
ReadFailsEndsLoop ==
  /\ pc = "reading"
  /\ inputFile = "failing"
  /\ pc' = "aggregated"
  /\ UNCHANGED <<csvVars, houseVars, ringVars, distVars, quantVars,
                 featVars, pipeVars, medianVars>>

\* The stream emits an error, on opening the file or after some lines.  The
\* engine either raises it as an uncaught exception, which ends the process
\* with a failure status, or has the loop throw it, which rejects the
\* promise of main: main().catch(console.error) logs it and the process
\* ends with status 0 (line 218).
ReadFails ==
  /\ pc = "reading"
  /\ inputFile = "failing"
  /\ pc' \in {"crashed", "rejected"}
  /\ UNCHANGED <<csvVars, houseVars, ringVars, distVars, quantVars,
                 featVars, pipeVars, medianVars>>

HouseIONext == HouseNext \/ MissingInput \/ OpenStream \/ ReadFails

SpecHouseIO == HouseIOInit /\ [][HouseIONext]_vars

\* --------------------------- whole runs of the price script, side by side

\* Two runs of main from the open stream to the written file, on the same
\* lines in two orders, with the same file at OUTPUT_PATH and the same
\* cutoff.
WholeRunInit ==
  /\ pc = "wholeRuns"
  /\ lines \in UNION {[1..n -> WholeRunLines] : n \in 1..MaxRecords}
  /\ shuffled \in Reorderings(lines)
  /\ twoYearsAgo = twoYearsBefore(CHOOSE now \in Nows : now.y = 2026)
  /\ existing \in {NoFile,
                    FileOf(<<Entry(KeyB1, Null, FromInt(45)),
                             Entry(KeySW1A, FromInt(9), FromInt(30))>>)}
  /\ result = None
  /\ resultShuffled = None
  /\ lineCount = 0 /\ processed = 0 /\ skipped = 0
  /\ pricesByDistrict = None /\ districts = None
  /\ inputFile = "readable"
  /\ metrics = None /\ outputFile = None /\ requested = None
  /\ boundaries = None /\ houseFirst = None /\ commuteFirst = None
  /\ RingIdle /\ DistIdle /\ QuantIdle /\ FeatIdle /\ PipeIdle
  /\ CsvIdle /\ MedianIdle

\* The run over the lines in the order of the file.
RunOnLines ==
  /\ pc = "wholeRuns"
  /\ result = None
  /\ result' = housePriceRun(existing, lines, twoYearsAgo)
  /\ pc' = IF resultShuffled = None THEN pc ELSE "compared"
  /\ UNCHANGED <<resultShuffled, shuffled, boundaries, houseFirst,
                 commuteFirst, loopVars, fileVars, csvVars, ringVars,
                 distVars, quantVars, featVars, pipeVars, medianVars>>

\* The run over the same lines in the other order.
RunOnShuffled ==
  /\ pc = "wholeRuns"
  /\ resultShuffled = None
  /\ resultShuffled' = housePriceRun(existing, shuffled, twoYearsAgo)
  /\ pc' = IF result = None THEN pc ELSE "compared"
  /\ UNCHANGED <<result, shuffled, boundaries, houseFirst,
                 commuteFirst, loopVars, fileVars, csvVars, ringVars,
                 distVars, quantVars, featVars, pipeVars, medianVars>>

WholeRunNext == RunOnLines \/ RunOnShuffled

SpecWholeRun == WholeRunInit /\ [][WholeRunNext]_vars

\* ------------------------------------------------- the two scripts in turn

\* Two points on the parallel 51.5 N whose average is 0.125 W, and the one
\* point 52 N 1 E; a point is [lng, lat].
RingWest ==
  <<<<RoundRat(-1, 4, 0), RoundRat(103, 2, 0)>>, <<F0, RoundRat(103, 2, 0)>>>>
RingEast == <<<<FromInt(1), FromInt(52)>>>>

BoundaryFeature(district, type, coordinates) ==
  [properties |-> [district |-> district],
   geometry |-> [type |-> type, coordinates |-> coordinates]]

AreaSW1A == BoundaryFeature(KeySW1A, "Polygon", <<RingWest>>)
AreaB1 == BoundaryFeature(KeyB1, "MultiPolygon", <<<<RingEast>>>>)
AreaB1West == BoundaryFeature(KeyB1, "Polygon", <<RingWest, RingEast>>)
AreaNoName == BoundaryFeature(<<>>, "Polygon", <<RingWest>>)
AreaLine == BoundaryFeature(KeySW1, "LineString", RingWest)
AreaNoRing == BoundaryFeature(KeySW1, "Polygon", <<>>)
AreaEmptyRing == BoundaryFeature(KeySW1, "Polygon", <<<<>>>>)

\* What the commute run may find at BOUNDARIES_PATH: no file, no feature,
\* features of districts the metrics file has and has not, a district
\* twice, and features without a name or without a centroid.
BoundaryFiles ==
  {[exists |-> FALSE, features |-> <<>>]}
  \cup {[exists |-> TRUE, features |-> fs] :
          fs \in {<<>>, <<AreaSW1A>>, <<AreaB1, AreaSW1A>>,
                  <<AreaB1, AreaB1West>>,
                  <<AreaNoName, AreaLine, AreaB1>>,
                  <<AreaNoRing, AreaEmptyRing, AreaSW1A>>}}

\* The lines of the price runs that come before or after a commute run.
MetricsLines ==
  {JoinWithCommas(r) :
     r \in {<<IdX, Price100, DateRecent, PostcodeSW1A>>,
            <<IdX, Price12, DateRecent, PostcodeSW1>>,
            <<IdX, Price5, DateOld, PostcodeSW1A>>}}

\* A metrics file, an input of the price script and a boundaries file, on
\* which the two scripts are run in both orders.
MetricsInit ==
  /\ pc = "metrics"
  /\ existing \in MetricsFiles
  /\ lines \in UNION {[1..n -> MetricsLines] : n \in 0..MaxLines}
  /\ twoYearsAgo = twoYearsBefore(CHOOSE now \in Nows : now.y = 2026)
  /\ boundaries \in BoundaryFiles
  /\ houseFirst = None /\ commuteFirst = None
  /\ shuffled = None /\ result = None /\ resultShuffled = None
  /\ lineCount = 0 /\ processed = 0 /\ skipped = 0
  /\ pricesByDistrict = None /\ districts = None
  /\ inputFile = "readable"
  /\ metrics = None /\ outputFile = None /\ requested = None
  /\ RingIdle /\ DistIdle /\ QuantIdle /\ FeatIdle /\ PipeIdle
  /\ CsvIdle /\ MedianIdle

\* The price script runs on the file as it was found.
HouseRunFirst ==
  /\ pc = "metrics"
  /\ houseFirst' = housePriceRun(existing, lines, twoYearsAgo).file
  /\ pc' = "houseRan"
  /\ UNCHANGED <<commuteFirst, boundaries, shuffled, result, resultShuffled,
                 loopVars, fileVars, csvVars, ringVars, distVars, quantVars,
                 featVars, pipeVars, medianVars>>

\* The commute script runs on the file the price script left.
CommuteRunSecond ==
  /\ pc = "houseRan"
  /\ houseFirst' = commuteRun(houseFirst, boundaries)
  /\ pc' = "houseThenCommute"
  /\ UNCHANGED <<commuteFirst, boundaries, shuffled, result, resultShuffled,
                 loopVars, fileVars, csvVars, ringVars, distVars, quantVars,
                 featVars, pipeVars, medianVars>>

\* The commute script runs on the file as it was found.
CommuteRunFirst ==
  /\ pc = "houseThenCommute"
  /\ commuteFirst' = commuteRun(existing, boundaries)
  /\ pc' = "commuteRan"
  /\ UNCHANGED <<houseFirst, boundaries, shuffled, result, resultShuffled,
                 loopVars, fileVars, csvVars, ringVars, distVars, quantVars,
                 featVars, pipeVars, medianVars>>

\* The price script runs on the file the commute script left.
HouseRunSecond ==
  /\ pc = "commuteRan"
  /\ commuteFirst' = housePriceRun(commuteFirst, lines, twoYearsAgo).file
  /\ pc' = "bothOrders"
  /\ UNCHANGED <<houseFirst, boundaries, shuffled, result, resultShuffled,
                 loopVars, fileVars, csvVars, ringVars, distVars, quantVars,
                 featVars, pipeVars, medianVars>>

MetricsNext ==
  HouseRunFirst \/ CommuteRunSecond \/ CommuteRunFirst \/ HouseRunSecond

SpecMetrics == MetricsInit /\ [][MetricsNext]_vars

\* ------------------------------------------------- calls of calculateMedian

\* A call of calculateMedian with a non-empty array.
MedianInit ==
  /\ pc = "median"
  /\ values \in MedianArrays
  /\ median = None
  /\ RingIdle /\ DistIdle /\ QuantIdle /\ FeatIdle /\ PipeIdle
  /\ CsvIdle /\ HouseIdle

\* The call returns; the sort is applied to the copy [...values], so the
\* array of the caller is left as it was.
CalculateMedian ==
  /\ pc = "median"
  /\ median' = calculateMedian(values)
  /\ pc' = "medianReturned"
  /\ UNCHANGED <<values, ringVars, distVars, quantVars, featVars, pipeVars,
                 csvVars, houseVars>>

MedianNext == CalculateMedian

SpecMedian == MedianInit /\ [][MedianNext]_vars

\* ============================================================== properties

\* ---- what the properties of simplifyRing speak of

RingDone == pc \in {"ringReturned", "ringThrew"}

NonNegativeTolerance == FLeq(F0, tolerance)

LastIndex == Len(ring) - 1

\* The indices of the Set keep.
Kept == Range(out.keep)

\* The nearest kept index below and above i.
PrevKept(i) == CHOOSE a \in Kept : a < i /\ \A b \in Kept : b < i => b <= a

NextKept(i) == CHOOSE a \in Kept : a > i /\ \A b \in Kept : b > i => a <= b

\* The k-th smallest element of the set S of integers (k from 1).
KthSmallest(S, k) == CHOOSE x \in S : Cardinality({y \in S : y < x}) = k - 1

\* The exact value of a number that holds an integer.
IntOf(a) == a[1] * Pow2(a[2])

\* The geometric distance from p to the line through s and e (to s when s
\* and e coincide) is at most tol: exact integer arithmetic on points and a
\* tolerance with integer values.
ExactWithin(p, s, e, tol) ==
  LET dx    == IntOf(e[1]) - IntOf(s[1])
      dy    == IntOf(e[2]) - IntOf(s[2])
      px    == IntOf(p[1]) - IntOf(s[1])
      py    == IntOf(p[2]) - IntOf(s[2])
      cross == px * dy - py * dx
  IN IF dx = 0 /\ dy = 0
     THEN px * px + py * py <= tol * tol
     ELSE cross * cross <= tol * tol * (dx * dx + dy * dy)

\* Every interior point of the ring is, as measured by perpendicularDistance,
\* within the tolerance of the chord from the first point to the last.
InteriorWithinComputed ==
  \A i \in 1..(LastIndex - 1) :
    FLeq(perpendicularDistance(At(ring, i), At(ring, 0), At(ring, LastIndex)),
         tolerance)

\* The same, for the geometric distance.
InteriorWithinExact ==
  \A i \in 1..(LastIndex - 1) :
    ExactWithin(At(ring, i), At(ring, 0), At(ring, LastIndex), IntOf(tolerance))

\* ---- C1
\* C1: for every ring of length >= 1 and every tolerance >= 0 the result of
\* simplifyRing starts with ring[0] and ends with ring[ring.length - 1], and
\* when the partition ran, index 0 and the last index are in the kept set.
C1_EndpointsKept ==
  (pc = "ringReturned" /\ NonNegativeTolerance) =>
    /\ Len(out.result) >= 1
    /\ out.result[1] = At(ring, 0)
    /\ out.result[Len(out.result)] = At(ring, LastIndex)
    /\ (Len(ring) >= 4 => {0, LastIndex} \subseteq Kept)

\* A ring with distinct endpoints from which the partition removed a point.
C1_Witness ==
  /\ pc = "ringReturned"
  /\ NonNegativeTolerance
  /\ Len(ring) >= 4
  /\ At(ring, 0) # At(ring, LastIndex)
  /\ Len(out.result) < Len(ring)

\* ---- C2
\* C2: for every ring of length >= 4 and tolerance >= 0, every point that was
\* removed has a perpendicularDistance to the chord between its nearest kept
\* neighbours (by index) that does not exceed the tolerance.
C2_RemovedWithinTolerance ==
  (pc = "ringReturned" /\ NonNegativeTolerance /\ Len(ring) >= 4) =>
    \A i \in 0..LastIndex :
      i \notin Kept =>
        FLeq(perpendicularDistance(At(ring, i), At(ring, PrevKept(i)),
                                   At(ring, NextKept(i))),
             tolerance)

\* A point removed next to a kept interior point: its chord is not the
\* chord of the whole ring, and it lies off that chord.
C2_Witness ==
  /\ pc = "ringReturned"
  /\ NonNegativeTolerance
  /\ Len(ring) >= 4
  /\ \E i \in 0..LastIndex :
       /\ i \notin Kept
       /\ <<PrevKept(i), NextKept(i)>> # <<0, LastIndex>>
       /\ perpendicularDistance(At(ring, i), At(ring, PrevKept(i)),
                                At(ring, NextKept(i))) # F0

\* ---- C3
\* C3: for tolerances t2 >= t1 >= 0 the ring simplified at t2 has no more
\* points than at t1, and its kept indices are among those kept at t1.
C3_MonotonicReduction ==
  (pc = "ringReturned" /\ NonNegativeTolerance) =>
    \A t2 \in Tolerances :
      FLeq(tolerance, t2) =>
        LET at2 == simplifyRing(ring, t2)
        IN /\ ~at2.threw
           /\ Len(at2.result) <= Len(out.result)
           /\ Range(at2.keep) \subseteq Kept

\* A ring that a larger tolerance reduces strictly further, to more than
\* its two endpoints.
C3_Witness ==
  /\ pc = "ringReturned"
  /\ NonNegativeTolerance
  /\ \E t2 \in Tolerances :
       /\ FLess(tolerance, t2)
       /\ LET at2 == simplifyRing(ring, t2)
          IN Len(at2.result) < Len(out.result) /\ Len(at2.result) > 2

\* ---- C4
\* C4: the result is a subsequence of the ring: the Set holds each kept
\* index once, and the result is the points of the kept indices in strictly
\* ascending index order, whatever order the recursion added them in; a
\* ring that bypasses the partition is returned whole.
C4_AscendingSubsequence ==
  pc = "ringReturned" =>
    IF Len(ring) < 4
    THEN out.result = ring
    ELSE /\ Len(out.keep) = Cardinality(Kept)
         /\ Kept \subseteq 0..LastIndex
         /\ Len(out.result) = Cardinality(Kept)
         /\ \A k \in 1..Len(out.result) :
              out.result[k] = At(ring, KthSmallest(Kept, k))

\* The recursion added the indices out of ascending order, and two kept
\* interior points differ, so that their order shows in the result.
C4_Witness ==
  /\ pc = "ringReturned"
  /\ Len(ring) >= 4
  /\ \E k \in 1..(Len(out.keep) - 1) : out.keep[k] > out.keep[k + 1]
  /\ \E j, k \in 2..(Len(out.result) - 1) : out.result[j] # out.result[k]

\* ---- C5
\* C5: a ring of fewer than 4 points is returned unchanged, whatever the
\* tolerance, and no range of it is examined.
C5_ShortRingUnchanged ==
  (RingDone /\ Len(ring) < 4) =>
    /\ pc = "ringReturned"
    /\ out.result = ring
    /\ out.calls = <<>>

\* A ring of 3 points whose middle point the partition would have removed.
C5_Witness ==
  /\ pc = "ringReturned"
  /\ Len(ring) = 3
  /\ NonNegativeTolerance
  /\ At(ring, 1) # At(ring, 0)
  /\ InteriorWithinComputed

\* ---- C6
\* C6 as stated: a ring of length >= 4 whose interior points all lie within
\* the tolerance of the chord first -> last (collinear points, with any
\* tolerance >= 0, among them) is reduced to exactly its two endpoints.
C6_Original ==
  (RingDone /\ Len(ring) >= 4 /\ NonNegativeTolerance /\ InteriorWithinExact) =>
    /\ pc = "ringReturned"
    /\ out.result = <<At(ring, 0), At(ring, LastIndex)>>

\* C6 as amended: a ring of length >= 4 whose interior points all have a
\* perpendicularDistance to the chord first -> last, as the program computes
\* it, that does not exceed the tolerance is reduced to exactly its two
\* endpoints, after examining that one range only.
C6_WithinComputedCollapses ==
  (RingDone /\ Len(ring) >= 4 /\ NonNegativeTolerance /\ InteriorWithinComputed) =>
    /\ pc = "ringReturned"
    /\ out.result = <<At(ring, 0), At(ring, LastIndex)>>
    /\ Len(out.calls) = 1

\* A ring collapsed to its endpoints although an interior point lies off
\* the chord, by exactly the tolerance.
C6_Witness ==
  /\ pc = "ringReturned"
  /\ Len(ring) >= 4
  /\ NonNegativeTolerance
  /\ InteriorWithinComputed
  /\ \E i \in 1..(LastIndex - 1) :
       /\ perpendicularDistance(At(ring, i), At(ring, 0), At(ring, LastIndex))
            = tolerance
       /\ tolerance # F0
  /\ Len(out.result) = 2

\* ---- C7
\* C7: a negative tolerance is rejected at the call boundary: the call
\* returns no ring and examines no range.
C7_NegativeToleranceRejected ==
  (RingDone /\ FLess(tolerance, F0)) =>
    /\ pc # "ringReturned"
    /\ out.calls = <<>>

\* ---- what the properties of the quantizer speak of

QuantDone == pc \in {"quantOnce", "quantTwice"}

\* coord[i] * factor, as roundCoord computes it.
Scaled(c) == FMul(c, MathPow10(precision))

\* The integer n with n - 1/2 <= x < n + 1/2 (a tie goes up).
NearestTieUp(x) ==
  IF x[2] >= 0 THEN x
  ELSE FromInt(CHOOSE n \in -Pow2(MantBits)..Pow2(MantBits) :
                 FLeq(<<2 * n - 1, -1>>, x) /\ FLess(x, <<2 * n + 1, -1>>))

\* The integer nearest to x, a tie going away from zero.
NearestTieAway(x) ==
  IF x[2] >= 0 THEN x
  ELSE FromInt(Sgn(x[1]) * ((Abs(x[1]) + Pow2(-x[2] - 1)) \div Pow2(-x[2])))

\* x is exactly half way between two integers.
IsTie(x) == x[2] = -1

\* |c * factor| <= 2^(MantBits - 3), exactly (2^50 for the program's numbers).
ScaledIsSmall(c) ==
  FLeq(<<Abs(c[1] * MathPow10(precision)[1]), c[2] + MathPow10(precision)[2]>>,
       <<1, MantBits - 3>>)

\* 10^precision is a number the arithmetic represents exactly (for the
\* program's numbers: precision <= 22).
FactorIsExact == IntOf(MathPow10(precision)) = Pow10(precision)

\* ---- C8
\* C8 as stated: for every coordinate and every precision, quantizing the
\* quantized coordinate again at the same precision changes nothing.
C8_Original == pc = "quantTwice" => twice = once

\* C8 as amended: quantizing twice equals quantizing once for every
\* precision whose factor 10^precision is exact and every coordinate whose
\* scaled values |coord[i] * 10^precision| do not exceed 2^(MantBits - 3),
\* that is 2^50 for the program's 53-bit numbers.
C8_IdempotentWhenSmall ==
  (/\ pc = "quantTwice"
   /\ FactorIsExact
   /\ ScaledIsSmall(coord[1])
   /\ ScaledIsSmall(coord[2])) =>
    twice = once

\* A coordinate within that range that quantization changed, at a
\* precision above 0, into a value that is not a whole number.
C8_Witness ==
  /\ pc = "quantTwice"
  /\ precision >= 1
  /\ FactorIsExact
  /\ ScaledIsSmall(coord[1])
  /\ ScaledIsSmall(coord[2])
  /\ once[1] # coord[1]
  /\ once[1][2] < 0
  /\ twice = once

\* ---- C9
\* C9 as stated: each scaled coordinate is rounded to the nearest integer, a
\* tie going away from zero for negative and positive values alike.
C9_Original ==
  QuantDone =>
    \A i \in 1..2 :
      once[i] = FDiv(NearestTieAway(Scaled(coord[i])), MathPow10(precision))

\* C9 as amended: each scaled coordinate is rounded to the nearest integer,
\* a tie going to the larger integer (towards +infinity): k + 0.5 gives
\* k + 1 and -k - 0.5 gives -k.
C9_TiesTowardPlusInfinity ==
  QuantDone =>
    \A i \in 1..2 :
      once[i] = FDiv(NearestTieUp(Scaled(coord[i])), MathPow10(precision))

\* A negative tie and a positive tie, rounded in one coordinate pair.
C9_Witness ==
  /\ QuantDone
  /\ IsTie(Scaled(coord[1])) /\ Scaled(coord[1])[1] < 0
  /\ IsTie(Scaled(coord[2])) /\ Scaled(coord[2])[1] > 0
  /\ precision >= 1

\* ---- what the properties of perpendicularDistance speak of

\* (point - lineStart) x (lineEnd - lineStart), exactly.
Cross ==
  (IntOf(point[1]) - IntOf(lineStart[1])) * (IntOf(lineEnd[2]) - IntOf(lineStart[2]))
  - (IntOf(point[2]) - IntOf(lineStart[2])) * (IntOf(lineEnd[1]) - IntOf(lineStart[1]))

\* (point - lineStart) . (lineEnd - lineStart), exactly.
Dot ==
  (IntOf(point[1]) - IntOf(lineStart[1])) * (IntOf(lineEnd[1]) - IntOf(lineStart[1]))
  + (IntOf(point[2]) - IntOf(lineStart[2])) * (IntOf(lineEnd[2]) - IntOf(lineStart[2]))

\* |lineEnd - lineStart|^2 and |point - lineStart|^2, exactly.
SegmentSq ==
  (IntOf(lineEnd[1]) - IntOf(lineStart[1])) * (IntOf(lineEnd[1]) - IntOf(lineStart[1]))
  + (IntOf(lineEnd[2]) - IntOf(lineStart[2])) * (IntOf(lineEnd[2]) - IntOf(lineStart[2]))

OffsetSq ==
  (IntOf(point[1]) - IntOf(lineStart[1])) * (IntOf(point[1]) - IntOf(lineStart[1]))
  + (IntOf(point[2]) - IntOf(lineStart[2])) * (IntOf(point[2]) - IntOf(lineStart[2]))

\* The point lies on the line through the two ends of a segment of
\* non-zero length; beyond one of its ends.
OnLine == lineStart # lineEnd /\ Cross = 0

BeyondEnds == Dot < 0 \/ Dot > SegmentSq

Max(a, b) == IF a >= b THEN a ELSE b

\* The largest of |point[i]| and |point[i] - lineStart[i]|.
Magnitude ==
  Max(Max(Abs(IntOf(point[1])), Abs(IntOf(point[2]))),
      Max(Abs(IntOf(point[1]) - IntOf(lineStart[1])),
          Abs(IntOf(point[2]) - IntOf(lineStart[2]))))

\* dist = sqrt(OffsetSq) up to a relative error of 2^(2 - MantBits): with
\* Q = 2^(MantBits - 2) and both squares scaled by S^2 to integers,
\* Q * |dist^2 - OffsetSq| <= 3 * OffsetSq.
DistIsEuclidean ==
  LET Q == Pow2(MantBits - 2)
      S == Pow2(MantBits)
      d == dist[1] * Pow2(dist[2] + MantBits)
  IN /\ dist[2] >= -MantBits
     /\ Q * Abs(d * d - OffsetSq * S * S) <= 3 * OffsetSq * S * S

\* ---- C10
\* C10 as stated: for a segment of non-zero length the distance of a point
\* on the infinite line through its ends is 0, beyond the ends too; for a
\* segment of zero length the result is the Euclidean distance from the
\* point to lineStart.
C10_Original ==
  pc = "distReturned" =>
    /\ OnLine => dist = F0
    /\ lineStart = lineEnd => DistIsEuclidean

\* C10 as amended: for a segment of non-zero length the distance of a point
\* on the infinite line through its ends, beyond the ends too, is 0 or a
\* rounding residue: never more than 2^(5 - MantBits) (2^-48 for the
\* program's numbers) times the largest of |point[i]| and
\* |point[i] - lineStart[i]|, and exactly 0 when the point is lineStart;
\* for a segment of zero length the result is the Euclidean distance from
\* the point to lineStart, as rounded by the arithmetic.  No intermediate
\* result overflows or underflows (the exponent of a number is unbounded).
C10_OnLineWithinRounding ==
  pc = "distReturned" =>
    /\ OnLine => FLeq(dist, <<Magnitude, 5 - MantBits>>)
    /\ (OnLine /\ point = lineStart) => dist = F0
    /\ lineStart = lineEnd => DistIsEuclidean

\* A point on the line, beyond the ends of a segment of non-zero length.
C10_Witness ==
  /\ pc = "distReturned"
  /\ OnLine
  /\ BeyondEnds
  /\ dist = F0

\* ---- what the properties of simplifyFeature and roundCoordinates speak of

FeatureCalled == pc = "feature"

IsPolygonal == feature.geometry.type \in {"Polygon", "MultiPolygon"}

SimplifyReturned == simplifiedFeature # None /\ ~simplifiedFeature.threw

RoundReturned == roundedFeature # None

\* The polygons of a geometry: the one of a Polygon, those of a MultiPolygon.
PolygonsOf(geom) ==
  IF geom.type = "Polygon" THEN <<geom.coordinates>> ELSE geom.coordinates

\* Geometry g has the polygons and rings of geometry g0, in number and
\* order, each ring related to the ring in its place by Related.
StructureRelated(g0, g, Related(_, _)) ==
  LET before == PolygonsOf(g0)
      after  == PolygonsOf(g)
  IN /\ g.type = g0.type
     /\ Len(after) = Len(before)
     /\ \A j \in 1..Len(before) :
          /\ Len(after[j]) = Len(before[j])
          /\ \A k \in 1..Len(before[j]) : Related(before[j][k], after[j][k])

SameStructure(g, Related(_, _)) == StructureRelated(feature.geometry, g, Related)

\* r is the ring whole with some points removed; r is whole with each point
\* quantized.
Thinned(whole, r) ==
  /\ Len(r) <= Len(whole)
  /\ \A i \in 1..Len(r) : r[i] \in Range(whole)
  /\ Len(whole) >= 2 => (r[1] = whole[1] /\ r[Len(r)] = whole[Len(whole)])

Quantized(whole, r) ==
  /\ Len(r) = Len(whole)
  /\ \A i \in 1..Len(r) : r[i] = roundCoord(whole[i], precision)

\* f is the feature with nothing but the coordinates replaced.
OnlyCoordinatesDiffer(f) ==
  f = [feature EXCEPT !.geometry.coordinates = f.geometry.coordinates]

\* ---- C11
\* C11: for a feature whose geometry type is neither Polygon nor
\* MultiPolygon, simplifyFeature and roundCoordinates both return the
\* feature itself, unmodified, and neither throws, whatever the tolerance
\* and the precision.
C11_OtherGeometryPassesThrough ==
  (FeatureCalled /\ ~IsPolygonal) =>
    /\ simplifiedFeature # None =>
         (~simplifiedFeature.threw /\ simplifiedFeature.value = feature)
    /\ roundedFeature # None => roundedFeature = feature

\* A MultiLineString passed through both calls although it holds a line that
\* simplifyRing would thin at this tolerance and one that roundRing would
\* change at this precision.
C11_Witness ==
  /\ FeatureCalled
  /\ feature.geometry.type = "MultiLineString"
  /\ SimplifyReturned
  /\ RoundReturned
  /\ \E k \in 1..Len(feature.geometry.coordinates) :
       simplifyRing(feature.geometry.coordinates[k], tolerance).result
         # feature.geometry.coordinates[k]
  /\ \E k \in 1..Len(feature.geometry.coordinates) :
       roundRing(feature.geometry.coordinates[k], precision)
         # feature.geometry.coordinates[k]

\* ---- C12
\* C12: for Polygon and MultiPolygon features simplifyFeature and
\* roundCoordinates change only the points inside rings: the properties and
\* every field but the coordinates are those of the input, the geometry type,
\* the number and order of polygons and of the rings in each are unchanged
\* (each ring thinned, or quantized, in its place), and the input feature is
\* never written to.
C12_StructureKept ==
  (FeatureCalled /\ IsPolygonal) =>
    /\ SimplifyReturned =>
         /\ OnlyCoordinatesDiffer(simplifiedFeature.value)
         /\ SameStructure(simplifiedFeature.value.geometry, Thinned)
    /\ RoundReturned =>
         /\ OnlyCoordinatesDiffer(roundedFeature)
         /\ SameStructure(roundedFeature.geometry, Quantized)

C12_OnlyRingPointsChange ==
  /\ []C12_StructureKept
  /\ [][feature' = feature]_vars

\* A MultiPolygon of two polygons, the first of two rings, that both calls
\* changed: a point was removed and a coordinate was quantized.
C12_Witness ==
  /\ FeatureCalled
  /\ feature.geometry.type = "MultiPolygon"
  /\ Len(feature.geometry.coordinates) = 2
  /\ Len(feature.geometry.coordinates[1]) = 2
  /\ SimplifyReturned
  /\ RoundReturned
  /\ simplifiedFeature.value # feature
  /\ roundedFeature # feature

\* ---- what the properties of the boundary pipeline speak of

SimplifyDone == pc \in {"simplified", "rounded", "written"}

RoundDone == pc \in {"rounded", "written"}

Polygonal(f) == f.geometry.type \in {"Polygon", "MultiPolygon"}

\* r is what simplifyRing leaves of the ring whole at the tolerance of main:
\* points of whole itself, at full precision.
SimplifiedByMain(whole, r) ==
  /\ Thinned(whole, r)
  /\ r = simplifyRing(whole, SimplifyTolerance).result

\* r is whole with each point quantized at the precision of main.
QuantizedByMain(whole, r) ==
  /\ Len(r) = Len(whole)
  /\ \A i \in 1..Len(r) : r[i] = roundCoord(whole[i], RoundPrecision)

\* ---- C13
\* C13: in the boundary pipeline every ring of every Polygon and MultiPolygon
\* is simplified first, on the coordinates as fetched, and quantized only
\* afterwards: nothing is quantized or written while the features are not
\* simplified, the simplified rings hold fetched points only, and every
\* point written is the quantized image of a point that simplification kept.
C13_SimplifyThenQuantize ==
  /\ pc = "fetching" => (simplified = None /\ rounded = None /\ written = None)
  /\ pc = "simplified" => (rounded = None /\ written = None)
  /\ SimplifyDone =>
       /\ Len(simplified) = Len(allFeatures)
       /\ \A k \in 1..Len(allFeatures) :
            IF Polygonal(allFeatures[k])
            THEN StructureRelated(allFeatures[k].geometry,
                                  simplified[k].geometry, SimplifiedByMain)
            ELSE simplified[k] = allFeatures[k]
  /\ RoundDone =>
       /\ Len(rounded) = Len(simplified)
       /\ \A k \in 1..Len(simplified) :
            IF Polygonal(simplified[k])
            THEN StructureRelated(simplified[k].geometry,
                                  rounded[k].geometry, QuantizedByMain)
            ELSE rounded[k] = simplified[k]
  /\ pc = "written" => written.features = rounded

\* A run that wrote a ring from which simplification removed a point and in
\* which quantization changed a coordinate.
C13_Witness ==
  /\ pc = "written"
  /\ \E k \in 1..Len(allFeatures) :
       /\ allFeatures[k].geometry.type = "Polygon"
       /\ \E j \in 1..Len(allFeatures[k].geometry.coordinates) :
            /\ Len(written.features[k].geometry.coordinates[j])
                 < Len(allFeatures[k].geometry.coordinates[j])
            /\ written.features[k].geometry.coordinates[j]
                 # simplified[k].geometry.coordinates[j]

\* ---- C14
\* C14: parseCSVLine inverts CSV encoding: for every non-empty list of
\* fields over the letter, the comma and the quote, the line made by
\* wrapping each field in quotes, doubling its quotes and joining with commas
\* parses to the list; and for fields without comma or quote the plain
\* comma-joined line parses to the list too.
C14_ParseInvertsEncoding ==
  pc = "csvParsed" => fields = csvFields

\* Two quoted fields were read back, the first holding a comma and a quote,
\* the second empty.
C14_Witness ==
  /\ pc = "csvParsed"
  /\ Len(csvFields) = 2
  /\ "," \in Range(csvFields[1])
  /\ "\"" \in Range(csvFields[1])
  /\ csvFields[2] = <<>>
  /\ fields = csvFields

\* ---- what the properties of the price script's loop speak of

\* The loop is about to read a line; the fields that line parses to.
ReadsLine == pc = "reading" /\ lines # <<>>

NextFields == parseCSVLine(Head(lines))

\* The step counts the line as skipped and touches no group.
Skips ==
  /\ skipped' = skipped + 1
  /\ processed' = processed
  /\ pricesByDistrict' = pricesByDistrict

\* The step counts the line as accepted and appends value to the Value
\* Collection of key, which it creates if need be; no other group changes.
Accepts(key, value) ==
  /\ processed' = processed + 1
  /\ skipped' = skipped
  /\ DOMAIN pricesByDistrict' = DOMAIN pricesByDistrict \cup {key}
  /\ pricesByDistrict'[key] =
       (IF key \in DOMAIN pricesByDistrict THEN pricesByDistrict[key] ELSE <<>>)
       \o <<value>>
  /\ \A g \in DOMAIN pricesByDistrict \ {key} :
       pricesByDistrict'[g] = pricesByDistrict[g]

\* str is, as a whole, a decimal number above zero: digits only, not all 0.
PositiveNumeric(str) ==
  /\ str # <<>>
  /\ \A k \in 1..Len(str) : IsDigit(str[k])
  /\ \E k \in 1..Len(str) : str[k] # "0"

\* The number such a string writes.
NumberOf(str) == FromInt(digitsValue(str, 0))

\* str reads as a date; that date is older than the cutoff.
Parseable(str) == ~isNaN(DateParse(str))

OlderThanCutoff(str) == FLess(DateParse(str), twoYearsAgo)

\* The longest prefix of str that holds no character of the set S.
Before(str, S) ==
  SubSeq(str, 1,
         CHOOSE n \in 0..Len(str) :
           /\ \A k \in 1..n : str[k] \notin S
           /\ n < Len(str) => str[n + 1] \in S)

\* A record of 4 fields or more whose value and date do not have it rejected.
ValueAndDateValid(fs) ==
  /\ Len(fs) >= 4
  /\ PositiveNumeric(fs[2])
  /\ Parseable(fs[3])
  /\ ~OlderThanCutoff(fs[3])

\* ---- C15
\* C15: a line that parses to fewer than 4 fields increments the skip counter
\* by exactly one, leaves the accepted counter unchanged, and neither creates
\* a group nor changes the Value Collection of any group.
C15_ShortLineSkipped ==
  [][(ReadsLine /\ Len(NextFields) < 4) => Skips]_vars

\* A line of fewer than 4 fields was skipped after a record had been
\* accepted into a group.
C15_Witness ==
  /\ pc = "reading"
  /\ lineCount = 2
  /\ Len(fields) < 4
  /\ skipped = 1
  /\ processed = 1
  /\ DOMAIN pricesByDistrict # {}

\* ---- C16
\* C16: a record whose date field cannot be parsed as a date is counted as
\* skipped and its value is appended to no group, even when its value and its
\* key-source are valid.
C16_UnparseableDateRejected ==
  [][(ReadsLine /\ Len(NextFields) >= 4 /\ ~Parseable(NextFields[3])) => Skips]_vars

\* ---- C17
\* C17: a record whose date is strictly older than the cutoff is counted as
\* skipped and its value is added to no group, whatever its other fields; a
\* record dated at or after the cutoff is not rejected for its date: with a
\* valid value and key-source it is accepted.
C17_OlderThanCutoffSkipped ==
  [][(ReadsLine /\ Len(NextFields) >= 4 /\ Parseable(NextFields[3])) =>
       /\ OlderThanCutoff(NextFields[3]) => Skips
       /\ (/\ ~OlderThanCutoff(NextFields[3])
           /\ PositiveNumeric(NextFields[2])
           /\ " " \in Range(trim(NextFields[4]))) =>
            (processed' = processed + 1 /\ skipped' = skipped)]_vars

\* A record dated one minute before the cutoff was skipped, after a record
\* had been accepted.
C17_Witness ==
  /\ pc = "reading"
  /\ lineCount = 2
  /\ Len(fields) >= 4
  /\ PositiveNumeric(fields[2])
  /\ fields[3] = DateBeforeCutoff
  /\ twoYearsAgo = DateParse(DateAtCutoff)
  /\ skipped = 1
  /\ processed = 1

\* ---- C18
\* C18: a record whose value field is not, as a whole, a number (digits
\* followed by letters included), or is zero or negative, is counted as
\* skipped and contributes no value to any group.
C18_NonNumericValueRejected ==
  [][(ReadsLine /\ Len(NextFields) >= 4 /\ ~PositiveNumeric(NextFields[2])) =>
       Skips]_vars

\* ---- C19
\* C19 as stated: the Group Key of a record is its key-source, trimmed and in
\* uppercase, cut before its first whitespace character (space or tab); a
\* key-source with no whitespace is rejected and the record skipped.
C19_Original ==
  [][(ReadsLine /\ ValueAndDateValid(NextFields)) =>
       LET source == toUpperCase(trim(NextFields[4]))
       IN IF \E k \in 1..Len(source) : IsWhiteSpace(source[k])
          THEN Accepts(Before(source, {" ", "\t"}), NumberOf(NextFields[2]))
          ELSE Skips]_vars

\* C19 as amended: the Group Key of a record is its key-source, trimmed and
\* in uppercase, cut before its first space character; a trimmed key-source
\* with no space, one whose only separator is a tab included, is rejected
\* and the record skipped.
C19_KeyCutAtFirstSpace ==
  [][(ReadsLine /\ ValueAndDateValid(NextFields)) =>
       LET source == toUpperCase(trim(NextFields[4]))
       IN IF " " \in Range(source)
          THEN Accepts(Before(source, {" "}), NumberOf(NextFields[2]))
          ELSE Skips]_vars

\* A key-source in lower case was added to the group "SW1A", which held a
\* value already.
C19_Witness ==
  /\ pc = "reading"
  /\ lineCount = 2
  /\ Len(fields) >= 4
  /\ fields[4] = PostcodeLower
  /\ processed = 2
  /\ DOMAIN pricesByDistrict = {<<"S", "W", "1", "A">>}
  /\ Len(pricesByDistrict[<<"S", "W", "1", "A">>]) = 2

\* ---- what the properties of calculateMedian speak of

MedianReturned == pc = "medianReturned"

\* Twice the exact value of a number that is a multiple of one half.
Doubled(a) == a[1] * Pow2(a[2] + 1)

\* The k-th element (k from 1) of the array vals in ascending numerical
\* order, counted with repetitions: fewer than k elements are below it and
\* at least k are not above it.
Ranked(vals, k) ==
  CHOOSE x \in Range(vals) :
    /\ Cardinality({i \in DOMAIN vals : Doubled(vals[i]) < Doubled(x)}) < k
    /\ Cardinality({i \in DOMAIN vals : Doubled(vals[i]) <= Doubled(x)}) >= k

\* The median of the array vals: its middle element in ascending order when
\* the count is odd, else the integer nearest to the exact average of its
\* two middle elements, the larger one when the average lies halfway.
MedianOf(vals) ==
  LET n == Len(vals)
  IN IF n % 2 = 1
     THEN Ranked(vals, (n + 1) \div 2)
     ELSE FromInt((Doubled(Ranked(vals, n \div 2))
                   + Doubled(Ranked(vals, n \div 2 + 1)) + 2) \div 4)

C20_MedianReturned == MedianReturned => median = MedianOf(values)

\* C20: for a non-empty array of numbers in any order calculateMedian returns
\* the middle element of the ascending order when the count is odd and, when
\* it is even, the average of the two middle elements rounded to the nearest
\* integer, a half rounding up; the array given is not reordered.
C20_MedianOfAscendingOrder ==
  []C20_MedianReturned /\ [][values' = values]_vars

\* An array of four numbers out of order whose two middle elements, 1 and 4,
\* average to 2.5: the median returned is 3.
C20_Witness ==
  /\ MedianReturned
  /\ values = <<FromInt(9), FromInt(1), FromInt(-3), FromInt(4)>>
  /\ median = FromInt(3)

\* ---- what the properties of the recursion of simplifyRing speak of

\* The ranges rdp examined, and those it split.
Examined == {out.calls[k] : k \in 1..Len(out.calls)}

Splits == {c \in Examined : FLess(tolerance, c.maxDist)}

\* The interior indices of the range of c and the distance of each to the
\* chord of the range.
Interior(c) == (c.start + 1)..(c.end - 1)

ChordDistance(c, i) ==
  perpendicularDistance(At(ring, i), At(ring, c.start), At(ring, c.end))

\* The interior indices of c at the maximum distance to its chord.
Farthest(c) ==
  {i \in Interior(c) :
     \A j \in Interior(c) : FLeq(ChordDistance(c, j), ChordDistance(c, i))}

\* ---- C28
\* C28: in each range the recursion of simplifyRing splits, the split point
\* is an interior point at the maximum distance to the chord and, when
\* several interior points are at that exact distance, the one of them with
\* the smallest index.  It fails for a negative tolerance on a range whose
\* interior points are all at distance 0: the split is made at start.
C28_SmallestIndexOnTie ==
  RingDone =>
    \A c \in Splits :
      /\ c.maxIndex \in Farthest(c)
      /\ \A i \in Farthest(c) : c.maxIndex <= i

\* ---- C29
\* C29: for every ring and every tolerance >= 0 simplifyRing returns (the
\* recursion ends): every range it examines has end > start + 1, and every
\* range it splits is split at an index strictly between start and end, so
\* both sub-ranges are strictly smaller than the range.
C29_RecursionTerminates ==
  (RingDone /\ NonNegativeTolerance) =>
    /\ pc = "ringReturned"
    /\ \A c \in Examined : c.end > c.start + 1
    /\ \A c \in Splits :
         /\ c.start < c.maxIndex /\ c.maxIndex < c.end
         /\ c.maxIndex - c.start < c.end - c.start
         /\ c.end - c.maxIndex < c.end - c.start

\* A ring whose recursion went two levels deep: a range that was split and
\* a strictly smaller range inside it that was split too.
C29_Witness ==
  /\ pc = "ringReturned"
  /\ NonNegativeTolerance
  /\ \E c \in Splits : \E d \in Splits :
       /\ c.start <= d.start /\ d.end <= c.end
       /\ d.end - d.start < c.end - c.start

\* ---- what the properties of whole runs speak of

\* What one line alone has a run do: the run accepts it or not and, if it
\* does, the key and the value it adds.
Alone(l) == processLine(NoLineRead, l, twoYearsAgo)

AcceptedAlone(l) == Alone(l).processed = 1

KeyOf(l) == Alone(l).districts[1]

ValueOf(l) == Alone(l).pricesByDistrict[KeyOf(l)][1]

\* The values of the accepted records of ls whose key is g, in the order of
\* the records.
RECURSIVE ValuesFor(_, _)
ValuesFor(ls, g) ==
  IF ls = <<>> THEN <<>>
  ELSE (IF AcceptedAlone(Head(ls)) /\ KeyOf(Head(ls)) = g
        THEN <<ValueOf(Head(ls))>> ELSE <<>>) \o ValuesFor(Tail(ls), g)

\* The keys of the accepted records of ls.
KeysOf(ls) ==
  {KeyOf(ls[k]) : k \in {j \in 1..Len(ls) : AcceptedAlone(ls[j])}}

\* The entries of a file, and the entry of the key g in it.
EntriesOf(file) == {file.entries[k] : k \in 1..Len(file.entries)}

EntryOf(file, g) == CHOOSE e \in EntriesOf(file) : e.district = g

HasEntry(file, g) == \E e \in EntriesOf(file) : e.district = g

\* ---- C21
\* C21: after a complete run, for every Group Key that received an accepted
\* record the medianPrice written is the median of exactly the values of
\* the accepted records of that key, and those keys are the keys the run
\* aggregated.
C21_MedianOfAcceptedValues ==
  pc = "compared" =>
    /\ Range(result.districts) = KeysOf(lines)
    /\ \A g \in KeysOf(lines) :
         /\ HasEntry(result.file, g)
         /\ EntryOf(result.file, g).medianPrice = MedianOf(ValuesFor(lines, g))

\* Records with the values 100, 300 and 200, in that order, of one key: the
\* median written for it is 200.
C21_Witness ==
  /\ pc = "compared"
  /\ Len(lines) = 3
  /\ KeysOf(lines) = {KeySW1A}
  /\ ValuesFor(lines, KeySW1A) = <<FromInt(100), FromInt(300), FromInt(200)>>
  /\ EntryOf(result.file, KeySW1A).medianPrice = FromInt(200)

\* ---- C30
\* C30: for the same lines in any two orders a run reports the same accepted
\* and skipped counts and writes the same set of Group Keys with the same
\* median for each.
C30_OrderIndependent ==
  pc = "compared" =>
    /\ result.processed = resultShuffled.processed
    /\ result.skipped = resultShuffled.skipped
    /\ Range(result.districts) = Range(resultShuffled.districts)
    /\ EntriesOf(result.file) = EntriesOf(resultShuffled.file)

\* Three lines in two different orders, one of them skipped and the others
\* accepted for two keys, which the two runs enter in different orders.
C30_Witness ==
  /\ pc = "compared"
  /\ Len(lines) = 3
  /\ shuffled # lines
  /\ result.skipped = 1
  /\ result.districts # resultShuffled.districts
  /\ result.file # resultShuffled.file

\* ---- what the properties of the Value Collections speak of

\* The number of values the Value Collections of the keys in S hold.
RECURSIVE CountValues(_, _)
CountValues(map, S) ==
  IF S = {} THEN 0
  ELSE LET g == CHOOSE x \in S : TRUE
       IN Len(map[g]) + CountValues(map, S \ {g})

TotalValues == CountValues(pricesByDistrict, DOMAIN pricesByDistrict)

\* a is the beginning of b.
IsPrefix(a, b) == Len(a) <= Len(b) /\ SubSeq(b, 1, Len(a)) = a

\* No Value Collection loses or changes a value in the step.
CollectionsGrow ==
  \A g \in DOMAIN pricesByDistrict :
    /\ g \in DOMAIN pricesByDistrict'
    /\ IsPrefix(pricesByDistrict[g], pricesByDistrict'[g])

\* The step appends exactly one value to exactly one Value Collection.
AppendsOne ==
  \E g \in DOMAIN pricesByDistrict' :
    /\ Len(pricesByDistrict'[g]) =
         (IF g \in DOMAIN pricesByDistrict THEN Len(pricesByDistrict[g])
          ELSE 0) + 1
    /\ \A h \in DOMAIN pricesByDistrict' \ {g} :
         h \in DOMAIN pricesByDistrict
         /\ pricesByDistrict'[h] = pricesByDistrict[h]

C23_TotalIsProcessed == TotalValues = processed

C23_Step ==
  /\ CollectionsGrow
  /\ processed' = processed + 1 => AppendsOne
  /\ processed' = processed => pricesByDistrict' = pricesByDistrict

\* ---- C23
\* C23: an accepted record appends exactly one value to exactly one Value
\* Collection and a skipped record appends none; at every point of the run
\* the number of values in all Value Collections is the accepted counter,
\* and the Value Collections only grow.
C23_OneValuePerAccepted == []C23_TotalIsProcessed /\ [][C23_Step]_vars

\* Two records were accepted, each appending its value to the collection of
\* its own key.
C23_Witness ==
  /\ pc = "reading"
  /\ processed = 2
  /\ Cardinality(DOMAIN pricesByDistrict) = 2
  /\ TotalValues = 2

\* ---- what the properties of the counters speak of

C26_CountersAddUp == processed + skipped = lineCount

C26_Step ==
  ReadsLine =>
    /\ lineCount' = lineCount + 1
    /\ \/ processed' = processed + 1 /\ skipped' = skipped
       \/ processed' = processed /\ skipped' = skipped + 1

\* ---- C26
\* C26: every line read increments exactly one of the accepted and skipped
\* counters, so that processed + skipped is the number of lines read at
\* every boundary of the loop, and whatever the lines hold the run reaches
\* the end of the stream, where it reports both counters.
C26_EveryLineCounted ==
  []C26_CountersAddUp /\ [][C26_Step]_vars /\ <>(pc = "done")

\* The stream was read to its end with lines accepted and lines skipped.
C26_Witness ==
  /\ pc = "aggregated"
  /\ processed >= 1
  /\ skipped >= 1
  /\ processed + skipped = lineCount

\* ---- C27
\* C27: every Group Key in the aggregation map has a non-empty Value
\* Collection in every reachable state; calculateMedian is never called
\* with an empty array, and no aggregated group is written with the result
\* 0 of an empty array.
C27_NoEmptyCollection ==
  /\ \A g \in DOMAIN pricesByDistrict : Len(pricesByDistrict[g]) >= 1
  /\ \A k \in 1..Len(requested) : requested[k] # <<>>
  /\ outputFile # None =>
       \A g \in DOMAIN pricesByDistrict :
         /\ HasEntry(outputFile, g)
         /\ EntryOf(outputFile, g).medianPrice # F0

\* A run that aggregated two keys has returned: the median was asked for
\* each key and for the medians of the file.
C27_Witness ==
  /\ pc = "done"
  /\ Cardinality(DOMAIN pricesByDistrict) = 2
  /\ Len(requested) = 3

\* ---- what the properties of the failures of the input speak of

\* main has returned or the process has ended.
RunEnded == pc \in {"noInput", "done", "crashed", "rejected"}

\* The run ended with a failure its caller sees: the process ended on an
\* uncaught exception.  ("rejected" is the rejection that line 218 catches
\* and logs, the process ending with status 0.)
HardFailure == pc = "crashed"

\* ---- C24
\* C24 as claimed: when the input file cannot be opened or read, the run
\* ends with a hard failure signalled to its caller.
C24_Original ==
  (inputFile \in {"missing", "failing"} /\ RunEnded) => HardFailure

\* C24 as amended: when the input file does not exist the run does not
\* fail: it reads no line, creates an empty metrics file if there is none,
\* leaves an existing one as it is, and returns normally.  When the file
\* exists but opening or reading it fails, the run does not complete: it
\* stops at the failure, raised as an uncaught exception or caught and
\* logged, without writing the metrics file.
C24_MissingInputIsNoFailure ==
  /\ (inputFile = "missing" /\ pc # "start") =>
       /\ pc = "noInput"
       /\ lineCount = 0
       /\ outputFile = IF existing.exists THEN None ELSE FileOf(<<>>)
  /\ inputFile = "failing" =>
       /\ pc \in {"start", "reading", "crashed", "rejected"}
       /\ outputFile = None

\* The input file is missing and so is the metrics file: main has returned
\* after creating the empty metrics file.
C24_Witness ==
  /\ pc = "noInput"
  /\ inputFile = "missing"
  /\ existing = NoFile
  /\ outputFile = FileOf(<<>>)

\* ---- C25
\* C25: in a run that opens the input stream the metrics file is written
\* only after the stream was consumed to its end; if reading the stream
\* fails part-way the run writes no file, so that no file holds medians of
\* a truncated input.
C25_WriteOnlyAfterEndOfStream ==
  /\ (inputFile # "missing" /\ outputFile # None) =>
       /\ inputFile = "readable"
       /\ lines = <<>>
       /\ pc \in {"metricsWritten", "done"}
  /\ pc \in {"crashed", "rejected"} => outputFile = None

\* Reading failed after a record was accepted and before the last line:
\* nothing was written.
C25_Witness ==
  /\ pc \in {"crashed", "rejected"}
  /\ processed >= 1
  /\ lines # <<>>
  /\ outputFile = None

\* ---- C22
\* The keys of the entries of one file or the other.
DistrictsOf(before, after) ==
  {e.district : e \in EntriesOf(before) \cup EntriesOf(after)}

\* The districts of the features of a boundaries file that have a name and
\* a centroid.
LocatedDistricts(b) ==
  {b.features[k].properties.district :
     k \in {j \in 1..Len(b.features) :
              /\ b.features[j].properties.district # <<>>
              /\ calculateCentroid(b.features[j].geometry) # Null}}

\* A price run over ls took the file from before to after: every entry
\* there was is still there with its commuteMinutes, the entries of the
\* groups not aggregated are as they were, no entry appears but those of
\* the groups aggregated, and a group aggregated has its entry.
PriceRunFrame(before, after, ls) ==
  \A g \in DistrictsOf(before, after) \cup KeysOf(ls) :
    /\ HasEntry(before, g) =>
         /\ HasEntry(after, g)
         /\ EntryOf(after, g).commuteMinutes
              = EntryOf(before, g).commuteMinutes
    /\ g \notin KeysOf(ls) =>
         /\ HasEntry(after, g) <=> HasEntry(before, g)
         /\ HasEntry(before, g) => EntryOf(after, g) = EntryOf(before, g)
    /\ g \in KeysOf(ls) =>
         /\ HasEntry(after, g)
         /\ EntryOf(after, g).medianPrice = calculateMedian(ValuesFor(ls, g))

\* A commute run over the boundaries b took the file from before to after:
\* every entry there was is still there with its medianPrice, the entries
\* of the districts not located are as they were, and a district located
\* has its entry.
CommuteRunFrame(before, after, b) ==
  \A g \in DistrictsOf(before, after) \cup LocatedDistricts(b) :
    /\ HasEntry(before, g) =>
         /\ HasEntry(after, g)
         /\ EntryOf(after, g).medianPrice = EntryOf(before, g).medianPrice
    /\ (~b.exists \/ g \notin LocatedDistricts(b)) =>
         /\ HasEntry(after, g) <=> HasEntry(before, g)
         /\ HasEntry(before, g) => EntryOf(after, g) = EntryOf(before, g)
    /\ (b.exists /\ g \in LocatedDistricts(b)) =>
         /\ HasEntry(after, g)
         /\ EntryOf(after, g).commuteMinutes # Null

C22_Step ==
  /\ (pc = "metrics" /\ pc' = "houseRan")
       => PriceRunFrame(existing, houseFirst', lines)
  /\ (pc = "houseRan" /\ pc' = "houseThenCommute")
       => CommuteRunFrame(houseFirst, houseFirst', boundaries)
  /\ (pc = "houseThenCommute" /\ pc' = "commuteRan")
       => CommuteRunFrame(existing, commuteFirst', boundaries)
  /\ (pc = "commuteRan" /\ pc' = "bothOrders")
       => PriceRunFrame(commuteFirst, commuteFirst', lines)

\* The two orders leave a file or leave none alike, with the same entry
\* for every group.
SameEntries ==
  /\ houseFirst.exists = commuteFirst.exists
  /\ EntriesOf(houseFirst) = EntriesOf(commuteFirst)

\* C22 as stated: a house-price run changes only the medianPrice of the
\* groups it aggregated, a commute-time run changes only commuteMinutes, and
\* the two scripts run one after the other give the same file in either
\* order.
C22_Original ==
  /\ [][C22_Step]_vars
  /\ [](pc = "bothOrders" => houseFirst = commuteFirst)

\* C22, amended: a house-price run changes only the medianPrice of the
\* groups it aggregated and leaves every pre-existing commuteMinutes and
\* every entry of a group it did not aggregate unchanged, a commute-time run
\* changes only commuteMinutes, and the two scripts run one after the other
\* give a file with the same entry for every group in either order (the
\* order of the keys in the file may differ).
C22_UpsertSameEntries ==
  /\ [][C22_Step]_vars
  /\ [](pc = "bothOrders" => SameEntries)

\* Both orders have run on a file that had an entry; the price run
\* aggregated a group the file did not have and the commute run located
\* one, and the files differ in the order of their keys only.
C22_Witness ==
  /\ pc = "bothOrders"
  /\ KeysOf(lines) \ {e.district : e \in EntriesOf(existing)} # {}
  /\ LocatedDistricts(boundaries)
       \ {e.district : e \in EntriesOf(existing)} # {}
  /\ EntriesOf(existing) # {}
  /\ houseFirst # commuteFirst
  /\ SameEntries

====
